---- MODULE Spec2Model ----
(***************************************************************************)
(* A model of the zetr NES emulator: the console driver (nes.rs), the PPU  *)
(* (ppu.rs) and the cartridge (cartridge.rs), as main.rs builds them.      *)
(* Bytes and words are naturals kept within their width; memories that     *)
(* the code zero-initialises are held sparsely (absent index = 0).         *)
(***************************************************************************)
EXTENDS Integers, Sequences, FiniteSets, TLC

VARIABLES
    nes,        \* the NES struct: cpu, ppu, ram, cartridge, controller, counters
    pc,         \* position of the driver: "new", "loaded", "idle" (main.rs),
                \* "reset" (NES::reset), "cpu", "ppu" (NES::run_frame), "regs"
    caller,     \* who called the running run_frame: "main" or "reset"
    warm,       \* run_frame calls NES::reset has still to make
    dot,        \* index of the `for _ in 0..3` loop inside run_frame
    calls,      \* number of run_frame calls main has made; in the register-level
                \* specifications, the number of register accesses made
    obs,        \* observations of the run (history, not program state)
    hist        \* the last three PPU register accesses (history)

vars == <<nes, pc, caller, warm, dot, calls, obs, hist>>

(* ---------------------------------------------------------------------- *)
(* Bounds of the model                                                     *)
(* ---------------------------------------------------------------------- *)
MaxFrames == 1
MaxOps == 5

(* ---------------------------------------------------------------------- *)
(* Rust's integer operators on u8 / u16                                    *)
(* ---------------------------------------------------------------------- *)
\* &, | and ^ are computed one hex digit at a time from 16 x 16 tables
RECURSIVE AndDigit(_, _, _)
AndDigit(x, y, n) ==
    IF n = 0 THEN 0
    ELSE (x % 2) * (y % 2) + 2 * AndDigit(x \div 2, y \div 2, n - 1)

RECURSIVE XorDigit(_, _, _)
XorDigit(x, y, n) ==
    IF n = 0 THEN 0
    ELSE ((x + y) % 2) + 2 * XorDigit(x \div 2, y \div 2, n - 1)

AndTable == [x \in 0..15 |-> [y \in 0..15 |-> AndDigit(x, y, 4)]]
XorTable == [x \in 0..15 |-> [y \in 0..15 |-> XorDigit(x, y, 4)]]
OrTable == [x \in 0..15 |-> [y \in 0..15 |-> AndTable[x][y] + XorTable[x][y]]]

RECURSIVE BitAnd(_, _)
BitAnd(x, y) ==
    IF x = 0 \/ y = 0 THEN 0
    ELSE AndTable[x % 16][y % 16] + 16 * BitAnd(x \div 16, y \div 16)

RECURSIVE BitOr(_, _)
BitOr(x, y) ==
    IF x = 0 THEN y
    ELSE IF y = 0 THEN x
    ELSE OrTable[x % 16][y % 16] + 16 * BitOr(x \div 16, y \div 16)

RECURSIVE BitXor(_, _)
BitXor(x, y) ==
    IF x = 0 THEN y
    ELSE IF y = 0 THEN x
    ELSE XorTable[x % 16][y % 16] + 16 * BitXor(x \div 16, y \div 16)

\* !m on a u8 and on a u16
Not8(m) == 255 - m
Not16(m) == 65535 - m

\* x << n on a value of width w bits, and x >> n
Shl(x, n, w) == (x * (2 ^ n)) % (2 ^ w)
Shr(x, n) == x \div (2 ^ n)

\* u8 / u16 wrapping_add and wrapping_sub
WrapAdd8(x, n) == (x + n) % 256
WrapSub8(x, n) == (x - n + 256) % 256
WrapAdd16(x, n) == (x + n) % 65536

\* `as i8` of a u8
AsI8(b) == IF b >= 128 THEN b - 256 ELSE b

(* ---------------------------------------------------------------------- *)
(* Zero-initialised byte arrays ([0; N]), held sparsely                    *)
(* ---------------------------------------------------------------------- *)
EmptyMem == [i \in {} |-> 0]

MemRead(m, i) == IF i \in DOMAIN m THEN m[i] ELSE 0

MemWrite(m, i, d) ==
    IF d = 0
    THEN [j \in (DOMAIN m) \ {i} |-> m[j]]
    ELSE [j \in (DOMAIN m) \cup {i} |-> IF j = i THEN d ELSE m[j]]

(* ---------------------------------------------------------------------- *)
(* Cartridge (cartridge.rs)                                                *)
(* A Vec<u8> is its length and its non-zero bytes.                         *)
(* ---------------------------------------------------------------------- *)
Vec(len, bytes) == [len |-> len, bytes |-> bytes]

VecAt(v, i) == MemRead(v.bytes, i)

Cartridge_dummy ==
    [prg_rom |-> Vec(0, EmptyMem), chr_rom |-> Vec(0, EmptyMem),
     mapper |-> 0, mirroring |-> "Horizontal"]

\* a PRG read that indexes the ROM with the offset itself
read_prg_NoMirror(cartridge, address) == VecAt(cartridge.prg_rom, address)

read_prg(cartridge, address) ==
    IF cartridge.prg_rom.len = 16384 THEN VecAt(cartridge.prg_rom, address % 16384)
    ELSE IF cartridge.prg_rom.len = 32768 THEN VecAt(cartridge.prg_rom, address)
    ELSE VecAt(cartridge.prg_rom, address % cartridge.prg_rom.len)

read_chr(cartridge, address) ==
    IF cartridge.chr_rom.len = 0 THEN 0
    ELSE VecAt(cartridge.chr_rom, address % cartridge.chr_rom.len)

write_chr(cartridge, address, data) ==
    IF cartridge.chr_rom.len = 8192
    THEN [cartridge EXCEPT !.chr_rom.bytes = MemWrite(@, address % 8192, data)]
    ELSE cartridge

(* ---------------------------------------------------------------------- *)
(* PPU (ppu.rs)                                                            *)
(* The struct's fields; frame_buffer is kept as the last pixel written     *)
(* (fb_last), the fields the code never reads or writes after              *)
(* construction (oam_data, scroll, addr, nmi_previous) are left out.       *)
(* ---------------------------------------------------------------------- *)
PPU_new ==
    [ctrl |-> 0, mask |-> 0, status |-> 0, oam_addr |-> 0, data |-> 0,
     vram_addr |-> 0, temp_vram_addr |-> 0, fine_x_scroll |-> 0,
     write_toggle |-> FALSE, read_buffer |-> 0,
     vram |-> EmptyMem, palette_ram |-> [i \in 0..31 |-> 0], oam |-> EmptyMem,
     scanline |-> 261, cycle |-> 0, frame_complete |-> FALSE,
     fb_last |-> <<>>,
     bg_next_tile_id |-> 0, bg_next_tile_attrib |-> 0,
     bg_next_tile_lsb |-> 0, bg_next_tile_msb |-> 0,
     bg_shifter_pattern_lo |-> 0, bg_shifter_pattern_hi |-> 0,
     bg_shifter_attrib_lo |-> 0, bg_shifter_attrib_hi |-> 0,
     nmi_occurred |-> FALSE, nmi_output |-> FALSE]

\* a reset that leaves the write toggle as it was
PPU_reset_KeepToggle(p) ==
    [p EXCEPT !.fine_x_scroll = 0,
              !.temp_vram_addr = \h2000,
              !.vram_addr = \h2000,
              !.data = 0,
              !.scanline = 261,
              !.cycle = 0,
              !.frame_complete = FALSE,
              !.status = \h80,
              !.ctrl = 0,
              !.mask = 0,
              !.nmi_occurred = FALSE,
              !.nmi_output = FALSE,
              !.bg_shifter_pattern_lo = 0,
              !.bg_shifter_pattern_hi = 0,
              !.bg_shifter_attrib_lo = 0,
              !.bg_shifter_attrib_hi = 0,
              !.palette_ram = [@ EXCEPT ![0] = \h0F, ![1] = \h30, ![2] = \h16,
                                        ![3] = \h27, ![17] = \h30, ![18] = \h27,
                                        ![19] = \h16]]

PPU_reset(p) ==
    [p EXCEPT !.fine_x_scroll = 0,
              !.temp_vram_addr = \h2000,
              !.vram_addr = \h2000,
              !.write_toggle = FALSE,
              !.data = 0,
              !.scanline = 261,
              !.cycle = 0,
              !.frame_complete = FALSE,
              !.status = \h80,
              !.ctrl = 0,
              !.mask = 0,
              !.nmi_occurred = FALSE,
              !.nmi_output = FALSE,
              !.bg_shifter_pattern_lo = 0,
              !.bg_shifter_pattern_hi = 0,
              !.bg_shifter_attrib_lo = 0,
              !.bg_shifter_attrib_hi = 0,
              !.palette_ram = [@ EXCEPT ![0] = \h0F, ![1] = \h30, ![2] = \h16,
                                        ![3] = \h27, ![17] = \h30, ![18] = \h27,
                                        ![19] = \h16]]

frame_ready(p) == p.frame_complete

\* a frame_done that leaves the flag standing
frame_done_Kept(p) == p

frame_done(p) == [p EXCEPT !.frame_complete = FALSE]

\* The index into vram that the nametable branch of ppu_read / ppu_write
\* computes for an address already reduced to $2000..$2FFF.
NametableIndex(addr, mirroring) ==
    IF mirroring = "Vertical" THEN BitAnd(addr, \h7FF)
    ELSE IF mirroring = "Horizontal" THEN
        IF addr >= \h2000 /\ addr < \h2400 THEN BitAnd(addr, \h3FF)
        ELSE IF addr >= \h2400 /\ addr < \h2800 THEN BitAnd(addr, \h3FF) + \h400
        ELSE IF addr >= \h2800 /\ addr < \h2C00 THEN BitAnd(addr, \h3FF)
        ELSE BitAnd(addr, \h3FF) + \h400
    ELSE BitAnd(addr, \h7FF)

\* a palette without the $10/$14/$18/$1C mirrors
PaletteIndex_Flat(addr) == BitAnd(addr, \h1F)

\* The index into palette_ram of a palette address.
PaletteIndex(addr) ==
    LET a == BitAnd(addr, \h1F)
    IN IF a = \h10 \/ a = \h14 \/ a = \h18 \/ a = \h1C THEN a - \h10 ELSE a

ppu_read(p, addr0, cartridge) ==
    LET addr == BitAnd(addr0, \h3FFF)
    IN IF addr <= \h1FFF THEN read_chr(cartridge, addr)
       ELSE IF addr <= \h3EFF
       THEN MemRead(p.vram, NametableIndex(BitAnd(addr, \h2FFF), cartridge.mirroring))
       ELSE BitAnd(p.palette_ram[PaletteIndex(addr)],
                   IF BitAnd(p.mask, \h01) # 0 THEN \h30 ELSE \h3F)

\* ppu_write changes the PPU (vram, palette_ram) or the cartridge (CHR):
\* the result holds both.
ppu_write(p, addr0, data, cartridge) ==
    LET addr == BitAnd(addr0, \h3FFF)
    IN IF addr <= \h1FFF
       THEN [ppu |-> p, cartridge |-> write_chr(cartridge, addr, data)]
       ELSE IF addr <= \h3EFF
       THEN [ppu |-> [p EXCEPT !.vram =
                         MemWrite(@, NametableIndex(BitAnd(addr, \h2FFF),
                                                    cartridge.mirroring), data)],
             cartridge |-> cartridge]
       ELSE [ppu |-> [p EXCEPT !.palette_ram[PaletteIndex(addr)] = data],
             cartridge |-> cartridge]


(* ---- background fetch pipeline ---- *)
update_shifters(p) ==
    IF BitAnd(p.mask, \h08) # 0
    THEN [p EXCEPT !.bg_shifter_pattern_lo = Shl(@, 1, 16),
                   !.bg_shifter_pattern_hi = Shl(@, 1, 16),
                   !.bg_shifter_attrib_lo = Shl(@, 1, 16),
                   !.bg_shifter_attrib_hi = Shl(@, 1, 16)]
    ELSE p

load_background_shifters(p) ==
    [p EXCEPT !.bg_shifter_pattern_lo = BitOr(BitAnd(@, \hFF00), p.bg_next_tile_lsb),
              !.bg_shifter_pattern_hi = BitOr(BitAnd(@, \hFF00), p.bg_next_tile_msb),
              !.bg_shifter_attrib_lo = BitOr(BitAnd(@, \hFF00),
                  IF BitAnd(p.bg_next_tile_attrib, \h01) # 0 THEN \hFF ELSE 0),
              !.bg_shifter_attrib_hi = BitOr(BitAnd(@, \hFF00),
                  IF BitAnd(p.bg_next_tile_attrib, \h02) # 0 THEN \hFF ELSE 0)]

fetch_nametable_byte(p, cartridge) ==
    [p EXCEPT !.bg_next_tile_id =
        ppu_read(p, BitOr(\h2000, BitAnd(p.vram_addr, \h0FFF)), cartridge)]

fetch_attribute_table_byte(p, cartridge) ==
    LET addr == BitOr(BitOr(BitOr(\h23C0, BitAnd(p.vram_addr, \h0C00)),
                            BitAnd(Shr(p.vram_addr, 4), \h38)),
                      BitAnd(Shr(p.vram_addr, 2), \h07))
        attribute == ppu_read(p, addr, cartridge)
        a1 == IF BitAnd(p.vram_addr, \h0002) # 0 THEN Shr(attribute, 2) ELSE attribute
        a2 == IF BitAnd(p.vram_addr, \h0040) # 0 THEN Shr(a1, 4) ELSE a1
    IN [p EXCEPT !.bg_next_tile_attrib = BitAnd(a2, \h03)]

\* table + tile_id * 16 + fine_y, the address both pattern fetches start from
BgPatternAddr(p) ==
    (IF BitAnd(p.ctrl, \h10) # 0 THEN \h1000 ELSE 0)
        + p.bg_next_tile_id * 16 + BitAnd(Shr(p.vram_addr, 12), \h07)

fetch_low_bg_tile_byte(p, cartridge) ==
    [p EXCEPT !.bg_next_tile_lsb = ppu_read(p, BgPatternAddr(p), cartridge)]

fetch_high_bg_tile_byte(p, cartridge) ==
    [p EXCEPT !.bg_next_tile_msb = ppu_read(p, BgPatternAddr(p) + 8, cartridge)]

(* ---- scroll updates of the VRAM address ---- *)
increment_scroll_x(p) ==
    IF BitAnd(p.mask, \h18) # 0
    THEN IF BitAnd(p.vram_addr, \h001F) = 31
         THEN [p EXCEPT !.vram_addr = BitXor(BitAnd(@, Not16(\h001F)), \h0400)]
         ELSE [p EXCEPT !.vram_addr = @ + 1]
    ELSE p

increment_scroll_y(p) ==
    IF BitAnd(p.mask, \h18) # 0
    THEN IF BitAnd(p.vram_addr, \h7000) # \h7000
         THEN [p EXCEPT !.vram_addr = @ + \h1000]
         ELSE LET v1 == BitAnd(p.vram_addr, Not16(\h7000))
                  y == Shr(BitAnd(v1, \h03E0), 5)
                  v2 == IF y = 29 THEN BitXor(v1, \h0800) ELSE v1
                  y2 == IF y = 29 \/ y = 31 THEN 0 ELSE y + 1
              IN [p EXCEPT !.vram_addr =
                     BitOr(BitAnd(v2, Not16(\h03E0)), Shl(y2, 5, 16))]
    ELSE p

\* a horizontal copy that does not ask whether rendering is enabled
transfer_address_x_Always(p) ==
    [p EXCEPT !.vram_addr =
             BitOr(BitAnd(@, \hFBE0), BitAnd(p.temp_vram_addr, \h041F))]

transfer_address_x(p) ==
    IF BitAnd(p.mask, \h18) # 0
    THEN [p EXCEPT !.vram_addr =
             BitOr(BitAnd(@, \hFBE0), BitAnd(p.temp_vram_addr, \h041F))]
    ELSE p

transfer_address_y(p) ==
    IF BitAnd(p.mask, \h18) # 0
    THEN [p EXCEPT !.vram_addr =
             BitOr(BitAnd(@, \h841F), BitAnd(p.temp_vram_addr, \h7BE0))]
    ELSE p


(* ---- pixel output ---- *)
\* The sprites of OAM that cover pixel (x, y), as the loop of render_pixel tests them.
SpriteCovers(p, i, x, y) ==
    LET sprite_y == MemRead(p.oam, i * 4)
        sprite_x == MemRead(p.oam, i * 4 + 3)
        sprite_height == IF BitAnd(p.ctrl, \h20) # 0 THEN 16 ELSE 8
    IN /\ y >= sprite_y /\ y < sprite_y + sprite_height
       /\ x >= sprite_x /\ x < sprite_x + 8

\* render_pixel writes the three bytes of pixel (x, y); fb_last is that write:
\* <<x, y, index into the 64-entry colour table>>.
render_pixel(p) ==
    LET x == p.cycle - 1
        y == p.scanline
        bit == 15 - p.fine_x_scroll
        bg_on == BitAnd(p.mask, \h08) # 0
        bg_pixel == IF bg_on
                    THEN BitAnd(Shr(p.bg_shifter_pattern_lo, bit), 1)
                         + 2 * BitAnd(Shr(p.bg_shifter_pattern_hi, bit), 1)
                    ELSE 0
        bg_palette == IF bg_on
                      THEN BitAnd(Shr(p.bg_shifter_attrib_lo, bit), 1)
                           + 2 * BitAnd(Shr(p.bg_shifter_attrib_hi, bit), 1)
                      ELSE 0
        hits == IF BitAnd(p.mask, \h10) # 0
                THEN {i \in 0..63 : SpriteCovers(p, i, x, y)}
                ELSE {}
        first == CHOOSE i \in hits : \A j \in hits : i <= j
        attributes == MemRead(p.oam, first * 4 + 2)
        sprite_pixel == IF hits # {} THEN 1 ELSE 0
        sprite_palette == IF hits # {} THEN BitAnd(attributes, \h03) + 4 ELSE 0
        sprite_priority == hits # {} /\ BitAnd(attributes, \h20) = 0
        use_sprite == sprite_pixel > 0 /\ (bg_pixel = 0 \/ sprite_priority)
        final_pixel == IF use_sprite THEN sprite_pixel ELSE bg_pixel
        final_palette == IF use_sprite THEN sprite_palette ELSE bg_palette
        palette_addr == IF final_pixel = 0 THEN 0
                        ELSE IF final_palette >= 4
                        THEN \h10 + Shl(final_palette - 4, 2, 8) + final_pixel
                        ELSE Shl(final_palette, 2, 8) + final_pixel
        color_index == p.palette_ram[BitAnd(palette_addr, \h1F)]
    IN IF x < 256 /\ y >= 0 /\ y < 240
       THEN [p EXCEPT !.fb_last = <<x, y, BitAnd(color_index, \h3F)>>]
       ELSE p

(* ---- PPU::step: one dot; the result is the PPU and the returned nmi ---- *)
BgFetchCycle(q, cartridge, k) ==
    IF k = 0 THEN load_background_shifters(q)
    ELSE IF k = 1 THEN fetch_nametable_byte(q, cartridge)
    ELSE IF k = 3 THEN fetch_attribute_table_byte(q, cartridge)
    ELSE IF k = 5 THEN fetch_low_bg_tile_byte(q, cartridge)
    ELSE IF k = 7 THEN increment_scroll_x(fetch_high_bg_tile_byte(q, cartridge))
    ELSE q

BgFetch(p, cartridge) ==
    BgFetchCycle(update_shifters(p), cartridge, (p.cycle - 1) % 8)

\* a step that signals the NMI at every start of VBlank
NmiEnabled_Always(p) == TRUE

\* `if self.ctrl & 0x80 != 0 { nmi = true; }`
NmiEnabled(p) == BitAnd(p.ctrl, \h80) # 0

\* `if self.scanline >= -1 && self.scanline < 240`
OnRenderLine(p) == p.scanline >= -1 /\ p.scanline < 240

\* `if self.scanline == 0 && self.cycle == 0 { self.cycle = 1; }`
StepSkip(p) ==
    IF OnRenderLine(p) /\ p.scanline = 0 /\ p.cycle = 0
    THEN [p EXCEPT !.cycle = 1] ELSE p

StepFetch(p, cartridge) ==
    IF OnRenderLine(p) /\ ((p.cycle >= 2 /\ p.cycle < 258)
                           \/ (p.cycle >= 321 /\ p.cycle < 338))
    THEN BgFetch(p, cartridge) ELSE p

StepScrollY(p) ==
    IF OnRenderLine(p) /\ p.cycle = 256 THEN increment_scroll_y(p) ELSE p

StepTransferX(p) ==
    IF OnRenderLine(p) /\ p.cycle = 257 THEN transfer_address_x(p) ELSE p

StepTransferY(p) ==
    IF OnRenderLine(p) /\ p.scanline = -1 /\ p.cycle >= 280 /\ p.cycle < 305
    THEN transfer_address_y(p) ELSE p

\* a pixel step that also clears the first OAM byte
StepPixel_ClearsOam(p) ==
    IF OnRenderLine(p) /\ p.scanline >= 0 /\ p.cycle >= 1 /\ p.cycle <= 256
    THEN [render_pixel(p) EXCEPT !.oam = MemWrite(@, 0, 1)] ELSE p

StepPixel(p) ==
    IF OnRenderLine(p) /\ p.scanline >= 0 /\ p.cycle >= 1 /\ p.cycle <= 256
    THEN render_pixel(p) ELSE p

\* the block under `if self.scanline >= -1 && self.scanline < 240`
StepRender(p, cartridge) ==
    StepPixel(StepTransferY(StepTransferX(StepScrollY(
        StepFetch(StepSkip(p), cartridge)))))

\* `if self.scanline == 241 && self.cycle == 1`
AtVBlankStart(p) == p.scanline = 241 /\ p.cycle = 1

StepVBlank(p) ==
    IF AtVBlankStart(p)
    THEN [p EXCEPT !.status = BitOr(@, \h80), !.nmi_occurred = TRUE]
    ELSE p

\* `self.cycle += 1;` and the wrap of cycle and scanline
StepAdvance(p) ==
    IF p.cycle + 1 >= 341
    THEN IF p.scanline + 1 >= 261
         THEN [p EXCEPT !.cycle = 0,
                        !.scanline = -1,
                        !.frame_complete = TRUE,
                        !.status = BitAnd(@, Not8(\h80)),
                        !.nmi_occurred = FALSE]
         ELSE [p EXCEPT !.cycle = 0, !.scanline = @ + 1]
    ELSE [p EXCEPT !.cycle = @ + 1]

\* the rest of PPU::step, from the PPU as the rendering block left it
StepEnd(p) ==
    [ppu |-> StepAdvance(StepVBlank(p)),
     nmi |-> AtVBlankStart(p) /\ NmiEnabled(p)]

PPU_step(p, cartridge) == StepEnd(StepRender(p, cartridge))


(* ---- CPU-visible registers $2000-$2007 ---- *)
\* a data port that always steps by one
VramIncrement_One(p) == 1

\* `self.vram_addr += if self.ctrl & 0x04 != 0 { 32 } else { 1 }` on a u16
VramIncrement(p) == IF BitAnd(p.ctrl, \h04) # 0 THEN 32 ELSE 1

\* (wrapping is what a release build does on overflow of the u16)
AdvanceVramAddr(p) == [p EXCEPT !.vram_addr = WrapAdd16(@, VramIncrement(p))]

\* PPU::cpu_read: the PPU afterwards and the byte returned
\* a $2002 read that leaves the write toggle as it was
StatusRead_KeepToggle(p) ==
    [ppu |-> [p EXCEPT !.status = BitAnd(@, Not8(\h80)),
                       !.nmi_occurred = FALSE],
     val |-> BitOr(BitAnd(p.status, \hE0), BitAnd(p.data, \h1F))]

\* the 0x2002 arm of PPU::cpu_read; `data` is the field that buffers $2007 reads
StatusRead(p) ==
    [ppu |-> [p EXCEPT !.status = BitAnd(@, Not8(\h80)),
                       !.nmi_occurred = FALSE,
                       !.write_toggle = FALSE],
     val |-> BitOr(BitAnd(p.status, \hE0), BitAnd(p.data, \h1F))]

\* the 0x2007 arm of PPU::cpu_read, fresh being what ppu_read returned
DataRead(p, fresh) ==
    [ppu |-> AdvanceVramAddr([p EXCEPT !.data = fresh]),
     val |-> IF p.vram_addr >= \h3F00 THEN fresh ELSE p.data]

PPU_cpu_read(p, addr) ==
    IF addr = \h2002
    THEN StatusRead(p)
    ELSE IF addr = \h2004
    THEN [ppu |-> p, val |-> MemRead(p.oam, p.oam_addr)]
    ELSE IF addr = \h2007
    THEN DataRead(p, ppu_read(p, p.vram_addr, Cartridge_dummy))
    ELSE [ppu |-> p, val |-> 0]

\* PPU::cpu_write
PPU_cpu_write(p, addr, data) ==
    IF addr = \h2000
    THEN [p EXCEPT !.ctrl = data,
                   !.temp_vram_addr = BitOr(BitAnd(@, \hF3FF),
                                            Shl(BitAnd(data, \h03), 10, 16)),
                   !.nmi_output = (BitAnd(data, \h80) # 0)]
    ELSE IF addr = \h2001
    THEN [p EXCEPT !.mask = IF data = \h06 THEN \h1E ELSE data]
    ELSE IF addr = \h2003
    THEN [p EXCEPT !.oam_addr = data]
    ELSE IF addr = \h2004
    THEN [p EXCEPT !.oam = MemWrite(@, p.oam_addr, data),
                   !.oam_addr = WrapAdd8(@, 1)]
    ELSE IF addr = \h2005
    THEN IF ~p.write_toggle
         THEN [p EXCEPT !.fine_x_scroll = BitAnd(data, \h07),
                        !.temp_vram_addr = BitOr(BitAnd(@, \hFFE0), Shr(data, 3)),
                        !.write_toggle = ~@]
         ELSE [p EXCEPT !.temp_vram_addr =
                            BitOr(BitAnd(BitOr(BitAnd(@, \h8FFF),
                                               Shl(BitAnd(data, \h07), 12, 16)),
                                         \hFC1F),
                                  Shl(BitAnd(data, \hF8), 2, 16)),
                        !.write_toggle = ~@]
    ELSE IF addr = \h2006
    THEN IF ~p.write_toggle
         THEN [p EXCEPT !.temp_vram_addr =
                            BitOr(BitAnd(@, \h80FF), Shl(BitAnd(data, \h3F), 8, 16)),
                        !.write_toggle = ~@]
         ELSE LET t == BitOr(BitAnd(p.temp_vram_addr, \hFF00), data)
              IN [p EXCEPT !.temp_vram_addr = t,
                           !.vram_addr = t,
                           !.write_toggle = ~@]
    ELSE IF addr = \h2007
    THEN AdvanceVramAddr(ppu_write(p, p.vram_addr, data, Cartridge_dummy).ppu)
    ELSE p


(* ---------------------------------------------------------------------- *)
(* Console (nes.rs): the CPU struct and the NES struct                     *)
(* Option<Cartridge> is a sequence of length 0 (None) or 1 (Some).         *)
(* ---------------------------------------------------------------------- *)
None == <<>>
Some(c) == <<c>>

CPU_new == [a |-> 0, x |-> 0, y |-> 0, pc |-> 0, sp |-> \hFD, p |-> \h24, cycles |-> 0]

CPU_reset(cpu, cartridge) ==
    [cpu EXCEPT !.pc = Shl(read_prg(cartridge, \h7FFD), 8, 16) + read_prg(cartridge, \h7FFC),
                !.sp = \hFD,
                !.p = \h24,
                !.cycles = 0]

NES_new ==
    [cpu |-> CPU_new, ppu |-> PPU_new, ram |-> EmptyMem, frame_complete |-> FALSE,
     cartridge |-> None, controller1 |-> 0, controller1_shift |-> 0,
     controller_strobe |-> FALSE, cycles |-> 0, frame_count |-> 0]

\* the console with the PPU as a register read r left it, and the byte read
ReadPPU(m, r) == [nes |-> [m EXCEPT !.ppu = r.ppu], val |-> r.val]

\* NES::cpu_read: the console afterwards and the byte returned
cpu_read(m, addr) ==
    IF addr <= \h1FFF
    THEN [nes |-> m, val |-> MemRead(m.ram, BitAnd(addr, \h07FF))]
    ELSE IF addr <= \h3FFF
    THEN ReadPPU(m, PPU_cpu_read(m.ppu, \h2000 + BitAnd(addr, \h0007)))
    ELSE IF addr = \h4016
    THEN [nes |-> [m EXCEPT !.controller1_shift = Shl(@, 1, 8)],
          val |-> IF BitAnd(m.controller1_shift, \h80) # 0 THEN 1 ELSE 0]
    ELSE IF addr = \h4017
    THEN [nes |-> m, val |-> 0]
    ELSE IF addr >= \h8000
    THEN [nes |-> m,
          val |-> IF m.cartridge # None
                  THEN read_prg(m.cartridge[1], addr - \h8000) ELSE 0]
    ELSE [nes |-> m, val |-> 0]

\* NES::cpu_write
\* a store that uses the address itself as the RAM index
cpu_write_NoMirror(m, addr, data) ==
    IF addr <= \h1FFF
    THEN [m EXCEPT !.ram = MemWrite(@, addr, data)]
    ELSE m

cpu_write(m, addr, data) ==
    IF addr <= \h1FFF
    THEN [m EXCEPT !.ram = MemWrite(@, BitAnd(addr, \h07FF), data)]
    ELSE IF addr <= \h3FFF
    THEN [m EXCEPT !.ppu = PPU_cpu_write(@, \h2000 + BitAnd(addr, \h0007), data)]
    ELSE IF addr = \h4016
    THEN LET strobe == BitAnd(data, 1) # 0
         IN [m EXCEPT !.controller_strobe = strobe,
                      !.controller1_shift = IF strobe THEN m.controller1 ELSE @]
    ELSE m

SetFlag(m, flag, on) ==
    [m EXCEPT !.cpu.p = IF on THEN BitOr(@, flag) ELSE BitAnd(@, Not8(flag))]

set_zero_negative(m, value) ==
    SetFlag(SetFlag(m, \h02, value = 0), \h80, BitAnd(value, \h80) # 0)

\* push one byte: cpu_write(0x0100 + sp, data); sp = sp.wrapping_sub(1)
Push(m, data) ==
    [cpu_write(m, \h0100 + m.cpu.sp, data) EXCEPT !.cpu.sp = WrapSub8(@, 1)]

\* pull one byte: sp = sp.wrapping_add(1); cpu_read(0x0100 + sp)
PullAt(m) == cpu_read(m, \h0100 + m.cpu.sp)

Pull(m) == PullAt([m EXCEPT !.cpu.sp = WrapAdd8(@, 1)])

\* NES::nmi: PC from the vector, once PC and P are pushed
NmiVector(m) ==
    IF m.cartridge # None
    THEN [m EXCEPT !.cpu.pc = Shl(read_prg(m.cartridge[1], \h7FFB), 8, 16)
                              + read_prg(m.cartridge[1], \h7FFA)]
    ELSE m

\* NES::nmi
NES_nmi(m) ==
    NmiVector(Push(Push(Push(m, BitAnd(Shr(m.cpu.pc, 8), \hFF)),
                        BitAnd(m.cpu.pc, \hFF)),
                   m.cpu.p))


(* ---- NES::cpu_step: addressing, as each match arm computes it ---- *)
\* Each gives the console after the operand reads, the effective address and
\* the number of operand bytes the arm adds to PC.  An operator that takes r,
\* lo, hi or zp takes the result of the cpu_read that fetched that byte.
Operand(m, addr, adv) == [nes |-> m, addr |-> addr, adv |-> adv]

M_imm(m) == Operand(m, m.cpu.pc, 1)

ZpOperand(r, index) == Operand(r.nes, BitAnd(r.val + index, \hFF), 1)

M_zp(m) == ZpOperand(cpu_read(m, m.cpu.pc), 0)

M_zpi(m, index) == ZpOperand(cpu_read(m, m.cpu.pc), index)

AbsOperand(lo, hi, index) ==
    Operand(hi.nes, WrapAdd16(Shl(hi.val, 8, 16) + lo.val, index), 2)

AbsHigh(m, lo, index) ==
    AbsOperand(lo, cpu_read(lo.nes, WrapAdd16(m.cpu.pc, 1)), index)

M_abs(m) == AbsHigh(m, cpu_read(m, m.cpu.pc), 0)

M_absi(m, index) == AbsHigh(m, cpu_read(m, m.cpu.pc), index)

IndYOperand(m, lo, hi) ==
    Operand(hi.nes, WrapAdd16(Shl(hi.val, 8, 16) + lo.val, m.cpu.y), 1)

IndYHigh(m, zp, lo) ==
    IndYOperand(m, lo, cpu_read(lo.nes, BitAnd(zp.val + 1, \hFF)))

IndYLow(m, zp) == IndYHigh(m, zp, cpu_read(zp.nes, zp.val))

M_indy(m) == IndYLow(m, cpu_read(m, m.cpu.pc))

AdvancePC(m, n) == [m EXCEPT !.cpu.pc = WrapAdd16(@, n)]

\* load a register from the operand
Loaded(o, reg, r) ==
    set_zero_negative(AdvancePC([r.nes EXCEPT !.cpu[reg] = r.val], o.adv), r.val)

LoadOp(o, reg) == Loaded(o, reg, cpu_read(o.nes, o.addr))

\* store a register to the operand
StoreOp(o, reg) == AdvancePC(cpu_write(o.nes, o.addr, o.nes.cpu[reg]), o.adv)

\* JMP absolute
JmpOp(o) == [o.nes EXCEPT !.cpu.pc = o.addr]

\* the eight conditional branches
Branched(r, taken) ==
    IF taken
    THEN [AdvancePC(r.nes, 1) EXCEPT !.cpu.pc = (@ + AsI8(r.val) + 65536) % 65536]
    ELSE AdvancePC(r.nes, 1)

BranchOp(m, taken) == Branched(cpu_read(m, m.cpu.pc), taken)

\* CMP / CPX / CPY immediate
Compared(r, reg) ==
    SetFlag(set_zero_negative(AdvancePC(r.nes, 1),
                              WrapSub8(r.nes.cpu[reg], r.val)),
            \h01, r.nes.cpu[reg] >= r.val)

CompareOp(m, reg) == Compared(cpu_read(m, m.cpu.pc), reg)

\* a register set to a value, with Z and N
SetReg(m, reg, value) == set_zero_negative([m EXCEPT !.cpu[reg] = value], value)

\* AND / ORA / EOR immediate: value is the new accumulator
LogicOp(m, value) == SetReg(AdvancePC(m, 1), "a", value)

AndOp(r) == LogicOp(r.nes, BitAnd(r.nes.cpu.a, r.val))

OraOp(r) == LogicOp(r.nes, BitOr(r.nes.cpu.a, r.val))

EorOp(r) == LogicOp(r.nes, BitXor(r.nes.cpu.a, r.val))

\* INC / DEC zero page
MemOpDone(m, value) == set_zero_negative(AdvancePC(m, 1), value)

MemOpStore(o, r, value) == MemOpDone(cpu_write(r.nes, o.addr, value), value)

MemOpAt(o, r, delta) == MemOpStore(o, r, (r.val + delta + 256) % 256)

MemOpOn(o, delta) == MemOpAt(o, cpu_read(o.nes, o.addr), delta)

MemOp(m, delta) == MemOpOn(M_zp(m), delta)

\* BIT
BitTest(o, r) ==
    SetFlag(SetFlag(SetFlag(AdvancePC(r.nes, o.adv),
                            \h02, BitAnd(r.nes.cpu.a, r.val) = 0),
                    \h80, BitAnd(r.val, \h80) # 0),
            \h40, BitAnd(r.val, \h40) # 0)

BitOp(o) == BitTest(o, cpu_read(o.nes, o.addr))

JsrPush(o, ret_addr) ==
    [Push(Push(o.nes, BitAnd(Shr(ret_addr, 8), \hFF)), BitAnd(ret_addr, \hFF))
        EXCEPT !.cpu.pc = o.addr]

\* a JSR that pushes the address of its operand's low byte
JsrOp_OperandAddress(m) == JsrPush(M_abs(m), m.cpu.pc)

JsrOp(m) == JsrPush(M_abs(m), WrapAdd16(m.cpu.pc, 1))

RtsJump(lo, hi) ==
    [hi.nes EXCEPT !.cpu.pc = WrapAdd16(Shl(hi.val, 8, 16) + lo.val, 1)]

RtsHigh(lo) == RtsJump(lo, Pull(lo.nes))

RtsOp(m) == RtsHigh(Pull(m))

RtiJump(lo, hi) == [hi.nes EXCEPT !.cpu.pc = Shl(hi.val, 8, 16) + lo.val]

RtiHigh(lo) == RtiJump(lo, Pull(lo.nes))

RtiLow(st) == RtiHigh(Pull([st.nes EXCEPT !.cpu.p = BitAnd(st.val, Not8(\h10))]))

RtiOp(m) == RtiLow(Pull(m))

PlaSet(r) == SetReg(r.nes, "a", r.val)

PlaOp(m) == PlaSet(Pull(m))

PlpSet(r) == [r.nes EXCEPT !.cpu.p = BitAnd(r.val, Not8(\h10))]

\* a PLP that stores the pulled byte as it is
PlpOp_KeepB(m) == [Pull(m).nes EXCEPT !.cpu.p = Pull(m).val]

PlpOp(m) == PlpSet(Pull(m))

\* the carry flag as 0 or 1
Carry(m) == IF BitAnd(m.cpu.p, \h01) # 0 THEN 1 ELSE 0

AdcSet(m, result) == SetReg(SetFlag(m, \h01, result > 255), "a", result % 256)

AdcAdd(r) == AdcSet(AdvancePC(r.nes, 1), r.nes.cpu.a + r.val + Carry(r.nes))

AdcOp(m) == AdcAdd(cpu_read(m, m.cpu.pc))

SbcSet(m, result) ==
    SetReg(SetFlag(m, \h01, ~(result < 0)), "a", (result + 65536) % 256)

SbcSub(r) == SbcSet(AdvancePC(r.nes, 1), r.nes.cpu.a - r.val - (1 - Carry(r.nes)))

SbcOp(m) == SbcSub(cpu_read(m, m.cpu.pc))

\* ASL / LSR / ROL / ROR on the accumulator
ShiftOp(m, carry_out, value) == SetReg(SetFlag(m, \h01, carry_out), "a", value)


\* the match on the opcode, PC already past the opcode byte
Execute(m, opcode) ==
    LET cpu == m.cpu
        C == Carry(m)
    IN CASE opcode = \hEA -> m
         [] opcode = \h4C -> JmpOp(M_abs(m))
         [] opcode = \h20 -> JsrOp(m)
         [] opcode = \h60 -> RtsOp(m)
         [] opcode = \h40 -> RtiOp(m)
         [] opcode = \h10 -> BranchOp(m, BitAnd(cpu.p, \h80) = 0)
         [] opcode = \h30 -> BranchOp(m, BitAnd(cpu.p, \h80) # 0)
         [] opcode = \h50 -> BranchOp(m, BitAnd(cpu.p, \h40) = 0)
         [] opcode = \h70 -> BranchOp(m, BitAnd(cpu.p, \h40) # 0)
         [] opcode = \h90 -> BranchOp(m, BitAnd(cpu.p, \h01) = 0)
         [] opcode = \hB0 -> BranchOp(m, BitAnd(cpu.p, \h01) # 0)
         [] opcode = \hD0 -> BranchOp(m, BitAnd(cpu.p, \h02) = 0)
         [] opcode = \hF0 -> BranchOp(m, BitAnd(cpu.p, \h02) # 0)
         [] opcode = \hA9 -> LoadOp(M_imm(m), "a")
         [] opcode = \hA5 -> LoadOp(M_zp(m), "a")
         [] opcode = \hAD -> LoadOp(M_abs(m), "a")
         [] opcode = \hA2 -> LoadOp(M_imm(m), "x")
         [] opcode = \hA0 -> LoadOp(M_imm(m), "y")
         [] opcode = \h8D -> StoreOp(M_abs(m), "a")
         [] opcode = \h85 -> StoreOp(M_zp(m), "a")
         [] opcode = \h95 -> StoreOp(M_zpi(m, cpu.x), "a")
         [] opcode = \h8E -> StoreOp(M_abs(m), "x")
         [] opcode = \h86 -> StoreOp(M_zp(m), "x")
         [] opcode = \h8C -> StoreOp(M_abs(m), "y")
         [] opcode = \h84 -> StoreOp(M_zp(m), "y")
         [] opcode = \h91 -> StoreOp(M_indy(m), "a")
         [] opcode = \hC9 -> CompareOp(m, "a")
         [] opcode = \hE0 -> CompareOp(m, "x")
         [] opcode = \hC0 -> CompareOp(m, "y")
         [] opcode = \hE8 -> SetReg(m, "x", WrapAdd8(cpu.x, 1))
         [] opcode = \hCA -> SetReg(m, "x", WrapSub8(cpu.x, 1))
         [] opcode = \hC8 -> SetReg(m, "y", WrapAdd8(cpu.y, 1))
         [] opcode = \h88 -> SetReg(m, "y", WrapSub8(cpu.y, 1))
         [] opcode = \h48 -> Push(m, cpu.a)
         [] opcode = \h68 -> PlaOp(m)
         [] opcode = \h08 -> Push(m, BitOr(cpu.p, \h10))
         [] opcode = \h28 -> PlpOp(m)
         [] opcode = \h78 -> SetFlag(m, \h04, TRUE)
         [] opcode = \h58 -> SetFlag(m, \h04, FALSE)
         [] opcode = \hD8 -> SetFlag(m, \h08, FALSE)
         [] opcode = \h18 -> SetFlag(m, \h01, FALSE)
         [] opcode = \h38 -> SetFlag(m, \h01, TRUE)
         [] opcode = \hB8 -> SetFlag(m, \h40, FALSE)
         [] opcode = \hAA -> SetReg(m, "x", cpu.a)
         [] opcode = \h8A -> SetReg(m, "a", cpu.x)
         [] opcode = \hA8 -> SetReg(m, "y", cpu.a)
         [] opcode = \h98 -> SetReg(m, "a", cpu.y)
         [] opcode = \h9A -> [m EXCEPT !.cpu.sp = cpu.x]
         [] opcode = \hBA -> SetReg(m, "x", cpu.sp)
         [] opcode = \h29 -> AndOp(cpu_read(m, cpu.pc))
         [] opcode = \h09 -> OraOp(cpu_read(m, cpu.pc))
         [] opcode = \h49 -> EorOp(cpu_read(m, cpu.pc))
         [] opcode = \h69 -> AdcOp(m)
         [] opcode = \hE9 -> SbcOp(m)
         [] opcode = \hB5 -> LoadOp(M_zpi(m, cpu.x), "a")
         [] opcode = \hBD -> LoadOp(M_absi(m, cpu.x), "a")
         [] opcode = \hB9 -> LoadOp(M_absi(m, cpu.y), "a")
         [] opcode = \hE6 -> MemOp(m, 1)
         [] opcode = \hC6 -> MemOp(m, -1)
         [] opcode = \h24 -> BitOp(M_zp(m))
         [] opcode = \h2C -> BitOp(M_abs(m))
         [] opcode = \h0A -> ShiftOp(m, BitAnd(cpu.a, \h80) # 0, Shl(cpu.a, 1, 8))
         [] opcode = \h4A -> ShiftOp(m, BitAnd(cpu.a, \h01) # 0, Shr(cpu.a, 1))
         [] opcode = \h2A -> ShiftOp(m, BitAnd(cpu.a, \h80) # 0, BitOr(Shl(cpu.a, 1, 8), C))
         [] opcode = \h6A -> ShiftOp(m, BitAnd(cpu.a, \h01) # 0, BitOr(Shr(cpu.a, 1), C * \h80))
         [] opcode = \hB6 -> LoadOp(M_zpi(m, cpu.y), "x")
         [] opcode = \hBE -> LoadOp(M_absi(m, cpu.y), "x")
         [] opcode = \hB4 -> LoadOp(M_zpi(m, cpu.x), "y")
         [] opcode = \hBC -> LoadOp(M_absi(m, cpu.x), "y")
         [] OTHER -> AdvancePC(m, 1)

\* NES::cpu_step: fetch, execute, count one cycle
Fetched(f) == [Execute(AdvancePC(f.nes, 1), f.val) EXCEPT !.cpu.cycles = @ + 1]

cpu_step(m) ==
    IF m.cartridge # None THEN Fetched(cpu_read(m, m.cpu.pc)) ELSE m


(* ---------------------------------------------------------------------- *)
(* Cartridge images the model loads (16 KiB PRG at $8000, mirrored at      *)
(* $C000; 8 KiB CHR RAM; mapper 0).  Code is placed at $8000, the NMI      *)
(* handler at $8020, the vectors at $FFFA-$FFFD.                           *)
(* ---------------------------------------------------------------------- *)
BytesAt(base, bytes) ==
    [i \in {base + k - 1 : k \in {j \in 1..Len(bytes) : bytes[j] # 0}} |-> bytes[i - base + 1]]

Image(code, handler, mirroring) ==
    [prg_rom |-> Vec(16384, BytesAt(0, code) @@ BytesAt(\h20, handler)
                            @@ BytesAt(\h3FFA, <<\h20, \h80, \h00, \h80>>)),
     chr_rom |-> Vec(8192, EmptyMem),
     mapper |-> 0,
     mirroring |-> mirroring]

\* LDA #$01; STA $2001; LDA #$80; STA $2000; loop: JMP loop      NMI: RTI
RomNmiLoop ==
    Image(<<\hA9, \h01, \h8D, \h01, \h20, \hA9, \h80, \h8D, \h00, \h20,
            \h4C, \h0A, \h80>>, <<\h40>>, "Horizontal")

\* CLI; LDA #$08; STA $2001; LDA #$80; STA $2000; loop: JMP loop  NMI: RTI
RomCliNmi ==
    Image(<<\h58, \hA9, \h08, \h8D, \h01, \h20, \hA9, \h80, \h8D, \h00, \h20,
            \h4C, \h0B, \h80>>, <<\h40>>, "Vertical")

\* loop: BIT $2002; BPL loop; JMP loop                            NMI: RTI
RomPoll ==
    Image(<<\h2C, \h02, \h20, \h10, \hFB, \h4C, \h00, \h80>>, <<\h40>>, "Horizontal")

Roms == {RomNmiLoop, RomCliNmi, RomPoll}

(* ---------------------------------------------------------------------- *)
(* Observations: counters and latches over the run, for stating claims.    *)
(* ---------------------------------------------------------------------- *)
ObsInit ==
    [ppu_dots |-> 0,      \* PPU::step calls since reset
     frame_dots |-> 0,    \* PPU::step calls since the last latch of frame_complete
     frame_len |-> 0,     \* length in dots of the last completed frame (0: none yet)
     frames |-> 0,        \* latches of frame_complete since reset
     skip_bg |-> FALSE,   \* MASK bit 3 when this frame stood at scanline 0, cycle 0
     frame_bg |-> FALSE,  \* skip_bg of the last completed frame
     nmi |-> FALSE,       \* what the last PPU::step returned
     at_vbl |-> FALSE,    \* the last PPU::step ran at scanline 241, cycle 1
     ctrl7 |-> FALSE,     \* CTRL bit 7 when the last PPU::step began
     signalled |-> 0,     \* PPU::step calls that returned true
     delivered |-> 0,     \* runs of NES::nmi
     frame_nmis |-> 0,    \* runs of NES::nmi since the last latch
     last_nmis |-> 0,     \* runs of NES::nmi in the last completed frame
     call_dots |-> 0,     \* PPU::step calls in the current run_frame call
     call_latches |-> 0]  \* latches of frame_complete in the current run_frame call


(* ---------------------------------------------------------------------- *)
(* The driver: main.rs calls load_cartridge, reset, then run_frame in a    *)
(* loop.  run_frame's loop is followed step by step: "cpu" is the point    *)
(* before cpu_step, "ppu" the point before a PPU::step of the inner loop.  *)
(* ---------------------------------------------------------------------- *)
Init ==
    /\ nes = NES_new
    /\ pc = "new"
    /\ caller = "main"
    /\ warm = 0
    /\ dot = 0
    /\ calls = 0
    /\ obs = ObsInit
    /\ hist = <<>>

\* NES::load_cartridge with a well-formed image
LoadCartridge(image) ==
    /\ pc = "new"
    /\ nes' = [nes EXCEPT !.cartridge = Some(image)]
    /\ pc' = "loaded"
    /\ UNCHANGED <<caller, warm, dot, calls, obs, hist>>

\* NES::reset up to its loop of three run_frame calls
Reset ==
    /\ pc = "loaded"
    /\ nes.cartridge # None
    /\ nes' = [nes EXCEPT !.cpu = CPU_reset(@, nes.cartridge[1]),
                          !.ppu = PPU_reset(@),
                          !.cycles = 0]
    /\ pc' = "reset"
    /\ warm' = 3
    /\ obs' = ObsInit
    /\ UNCHANGED <<caller, dot, calls, hist>>

\* entry of NES::run_frame: frame_complete = false, then the while loop
EnterRunFrame(from) ==
    /\ nes.cartridge # None
    /\ nes' = [nes EXCEPT !.frame_complete = FALSE]
    /\ pc' = "cpu"
    /\ caller' = from
    /\ dot' = 0
    /\ obs' = [obs EXCEPT !.call_dots = 0, !.call_latches = 0]

\* NES::reset calls run_frame
ResetCall ==
    /\ pc = "reset"
    /\ warm > 0
    /\ warm' = warm - 1
    /\ EnterRunFrame("reset")
    /\ UNCHANGED <<calls, hist>>

\* NES::reset returns
ResetDone ==
    /\ pc = "reset"
    /\ warm = 0
    /\ pc' = "idle"
    /\ UNCHANGED <<nes, caller, warm, dot, calls, obs, hist>>

\* main calls run_frame
RunFrame ==
    /\ pc = "idle"
    /\ calls < MaxFrames
    /\ calls' = calls + 1
    /\ EnterRunFrame("main")
    /\ UNCHANGED <<warm, hist>>

\* run_frame: self.cpu_step()
CpuStep ==
    /\ pc = "cpu"
    /\ nes' = cpu_step(nes)
    /\ pc' = "ppu"
    /\ dot' = 0
    /\ UNCHANGED <<caller, warm, calls, obs, hist>>

\* run_frame: one pass of `for _ in 0..3`: PPU::step, the NMI test, the frame test
DotDone(m, r, take, m2) ==
    [nes |-> IF frame_ready(m2.ppu)
             THEN [m2 EXCEPT !.frame_complete = TRUE,
                             !.ppu = frame_done(@),
                             !.frame_count = @ + 1]
             ELSE m2,
     nmi |-> r.nmi,
     take |-> take,
     done |-> frame_ready(m2.ppu),
     latched |-> r.ppu.frame_complete /\ ~m.ppu.frame_complete]

DotNmi(m, r, m1, take) == DotDone(m, r, take, IF take THEN NES_nmi(m1) ELSE m1)

DotStepped(m, r) ==
    DotNmi(m, r, [m EXCEPT !.ppu = r.ppu], r.nmi /\ BitAnd(m.cpu.p, \h04) = 0)

\* m is the console before the pass; the result holds the console after it and
\* what happened: nmi (PPU::step returned true), take (NES::nmi ran), done (the
\* frame test succeeded), latched (PPU::step set frame_complete)
DotResult(m) == DotStepped(m, PPU_step(m.ppu, m.cartridge[1]))

Observe(o, m, d) ==
    LET at0 == m.ppu.scanline = 0 /\ m.ppu.cycle = 0
        bg == IF at0 THEN BitAnd(m.ppu.mask, \h08) # 0 ELSE o.skip_bg
        n == o.frame_nmis + (IF d.take THEN 1 ELSE 0)
    IN [o EXCEPT !.ppu_dots = @ + 1,
                 !.frame_dots = IF d.latched THEN 0 ELSE @ + 1,
                 !.frame_len = IF d.latched THEN o.frame_dots + 1 ELSE @,
                 !.frames = IF d.latched THEN @ + 1 ELSE @,
                 !.skip_bg = IF d.latched THEN FALSE ELSE bg,
                 !.frame_bg = IF d.latched THEN bg ELSE @,
                 !.nmi = d.nmi,
                 !.at_vbl = (m.ppu.scanline = 241 /\ m.ppu.cycle = 1),
                 !.ctrl7 = (BitAnd(m.ppu.ctrl, \h80) # 0),
                 !.signalled = IF d.nmi THEN @ + 1 ELSE @,
                 !.delivered = IF d.take THEN @ + 1 ELSE @,
                 !.frame_nmis = IF d.latched THEN 0 ELSE n,
                 !.last_nmis = IF d.latched THEN n ELSE @,
                 !.call_dots = @ + 1,
                 !.call_latches = IF d.latched THEN @ + 1 ELSE @]

PpuDotTo(d) ==
    /\ nes' = d.nes
    /\ obs' = Observe(obs, nes, d)
    /\ IF d.done
       THEN /\ pc' = (IF caller = "reset" THEN "reset"
                      ELSE IF caller = "pad" THEN "regs" ELSE "idle")
            /\ dot' = 0
       ELSE /\ pc' = (IF dot + 1 = 3 THEN "cpu" ELSE "ppu")
            /\ dot' = (dot + 1) % 3

PpuDot ==
    /\ pc = "ppu"
    /\ PpuDotTo(DotResult(nes))
    /\ UNCHANGED <<caller, warm, calls, hist>>

Next ==
    \/ \E image \in Roms : LoadCartridge(image)
    \/ Reset
    \/ ResetCall
    \/ ResetDone
    \/ RunFrame
    \/ CpuStep
    \/ PpuDot

Spec == Init /\ [][Next]_vars



(* ---------------------------------------------------------------------- *)
(* Register-level view: the CPU-side accesses to $2000-$2007 that a        *)
(* program makes through NES::cpu_read / NES::cpu_write, starting from the *)
(* console as load_cartridge and the head of reset leave it.  hist keeps   *)
(* the last three accesses, each with the registers as they stood before.  *)
(* ---------------------------------------------------------------------- *)
Mirrorings == {"Horizontal", "Vertical"}

\* the PPU fields an access can depend on
Regs(p) ==
    [status |-> p.status, data |-> p.data, vram_addr |-> p.vram_addr,
     temp_vram_addr |-> p.temp_vram_addr, write_toggle |-> p.write_toggle,
     ctrl |-> p.ctrl, mask |-> p.mask]

Entry(op, addr, data, val, p) ==
    [op |-> op, addr |-> addr, data |-> data, val |-> val, before |-> Regs(p)]

Window(h, e) == IF Len(h) < 3 THEN Append(h, e) ELSE Append(Tail(h), e)

\* the stores and loads of a program working the address and scroll latches
LatchWrites ==
    {<<\h2000, \h04>>, <<\h2000, \h00>>, <<\h2005, \h7D>>,
     <<\h2006, \h11>>, <<\h2006, \hFF>>, <<\h2007, \hC5>>}

LatchReads == {\h2002, \h2007}

\* the stores of a program filling nametables and palette through the data port
PortWrites == {<<\h2001, \h01>>, <<\h2007, \hF5>>}

\* addresses the program points the data port at
PortAddrs == {\h2000, \h2400, \h2800, \h2C00, \h3F00, \h3F10, \h3F0C, \h3F1C}

InitPPU ==
    /\ \E mirroring \in Mirrorings :
          LET cart == Image(<<>>, <<>>, mirroring)
          IN nes = [NES_new EXCEPT !.cartridge = Some(cart),
                                   !.cpu = CPU_reset(@, cart),
                                   !.ppu = PPU_reset(@)]
    /\ pc = "regs"
    /\ caller = "main"
    /\ warm = 0
    /\ dot = 0
    /\ calls = 0
    /\ obs = ObsInit
    /\ hist = <<>>

\* a store to a PPU register: NES::cpu_write
RegWrite(addr, data) ==
    /\ pc = "regs"
    /\ calls < MaxOps
    /\ nes' = cpu_write(nes, addr, data)
    /\ hist' = Window(hist, Entry("write", addr, data, 0, nes.ppu))
    /\ calls' = calls + 1
    /\ UNCHANGED <<pc, caller, warm, dot, obs>>

\* a load from a PPU register: NES::cpu_read
RegRead(addr) ==
    /\ pc = "regs"
    /\ calls < MaxOps
    /\ LET r == cpu_read(nes, addr)
       IN /\ nes' = r.nes
          /\ hist' = Window(hist, Entry("read", addr, 0, r.val, nes.ppu))
    /\ calls' = calls + 1
    /\ UNCHANGED <<pc, caller, warm, dot, obs>>

\* the usual way a program points the data port at an address:
\* BIT $2002; LDA #hi; STA $2006; LDA #lo; STA $2006
SetVramAddr(a) ==
    /\ pc = "regs"
    /\ calls < MaxOps
    /\ LET m1 == cpu_read(nes, \h2002).nes
           m2 == cpu_write(m1, \h2006, Shr(a, 8))
           m3 == cpu_write(m2, \h2006, BitAnd(a, \hFF))
       IN nes' = m3
    /\ hist' = Window(hist, Entry("addr", a, 0, 0, nes.ppu))
    /\ calls' = calls + 1
    /\ UNCHANGED <<pc, caller, warm, dot, obs>>

NextPPU ==
    \/ \E w \in LatchWrites : RegWrite(w[1], w[2])
    \/ \E addr \in LatchReads : RegRead(addr)

SpecPPU == InitPPU /\ [][NextPPU]_vars

NextPort ==
    \/ \E w \in PortWrites : RegWrite(w[1], w[2])
    \/ RegRead(\h2007)
    \/ \E a \in PortAddrs : SetVramAddr(a)

SpecPort == InitPPU /\ [][NextPort]_vars


(* ====================================================================== *)
(* Claims about the console's timing (specification Spec)                  *)
(* ====================================================================== *)
InRunFrame == pc \in {"cpu", "ppu"}

\* A whole number of passes of run_frame's loop body has run.
AtTickBoundary == pc \in {"cpu", "idle", "reset"} /\ obs.ppu_dots > 0

\* C1 (as claimed): whenever whole passes of run_frame's loop have run since
\* reset, cpu_cycles * 3 <= ppu_dots <= cpu_cycles * 3 + 2.
C1_ClockRatio ==
    AtTickBoundary =>
        /\ nes.cpu.cycles * 3 <= obs.ppu_dots
        /\ obs.ppu_dots <= nes.cpu.cycles * 3 + 2

C3_FrameLength ==
    obs.frame_len # 0 =>
        obs.frame_len = 341 * 262
            - (IF obs.frames % 2 = 0 /\ obs.frame_bg THEN 1 ELSE 0)

\* C4 (as claimed): every NMI the PPU signals runs the CPU's NMI sequence,
\* whatever the I flag: as many NES::nmi runs as PPU::step calls returning true.
C4_NmiNotMaskable == obs.delivered = obs.signalled

\* C5 (as claimed): a program that writes $80 to $2000 and then loops without
\* reading $2002 has exactly one run of the NMI sequence in every frame that
\* began with NMI enabled.
C5_OneNmiPerFrame ==
    (nes.cartridge \in {Some(RomNmiLoop), Some(RomCliNmi)} /\ obs.frames >= 2)
        => obs.last_nmis = 1

\* C6: the PPU::step that runs at scanline 241, cycle 1 leaves STATUS bit 7 set and
\* returns true exactly when CTRL bit 7 was set as it began; no other step returns true.
C6_VBlankNmi ==
    /\ obs.at_vbl => (BitAnd(nes.ppu.status, \h80) # 0 /\ (obs.nmi <=> obs.ctrl7))
    /\ obs.nmi => obs.at_vbl

\* C6 witness: a step at scanline 241, cycle 1 that signalled the NMI.
C6_Witness ==
    /\ obs.at_vbl /\ obs.nmi
    /\ nes.ppu.scanline = 241 /\ nes.ppu.cycle = 2
    /\ BitAnd(nes.ppu.status, \h80) # 0


(* ====================================================================== *)
(* Claims about the PPU registers (specifications SpecPPU and SpecPort)    *)
(* ====================================================================== *)
\* the registers as access k of the window left them
After(k) == IF k = Len(hist) THEN Regs(nes.ppu) ELSE hist[k + 1].before

IsWrite(k, addr) == hist[k].op = "write" /\ hist[k].addr = addr

IsRead(k, addr) == hist[k].op = "read" /\ hist[k].addr = addr

\* C7: a read of $2002 returns (status & $E0) | (buffer & $1F) of the values held
\* before the read, where buffer is the byte kept for delayed $2007 reads; after it
\* STATUS bit 7 is clear and w is 0; and a write to $2005 or $2006 that comes next
\* acts as a first write: it sets w and does not load v.
C7_StatusRead ==
    \A k \in 1..Len(hist) :
        IsRead(k, \h2002) =>
            /\ hist[k].val = BitOr(BitAnd(hist[k].before.status, \hE0),
                                   BitAnd(hist[k].before.data, \h1F))
            /\ BitAnd(After(k).status, \h80) = 0
            /\ ~After(k).write_toggle
            /\ (k < Len(hist) /\ (IsWrite(k + 1, \h2005) \/ IsWrite(k + 1, \h2006))) =>
                   /\ After(k + 1).write_toggle
                   /\ After(k + 1).vram_addr = hist[k].before.vram_addr

\* C7 witness: with a palette byte in the buffer and w set by a $2006 write, a
\* $2002 read returned VBlank plus the buffer's low bits and left w clear.
C7_Witness ==
    /\ Len(hist) = 3
    /\ IsRead(1, \h2007)
    /\ IsWrite(2, \h2006) /\ ~hist[2].before.write_toggle
    /\ IsRead(3, \h2002) /\ hist[3].before.write_toggle
    /\ hist[3].before.data = \h30
    /\ hist[3].val = \h90
    /\ ~nes.ppu.write_toggle

\* C8: after two writes (first, second) to $2006 that start with w clear, the
\* $2007 access that follows uses VRAM address ((first & $3F) << 8) | second; and
\* every $2007 read or write moves the address on by 1 when CTRL bit 2 was clear
\* and by 32 when it was set.
C8_AddressLatch ==
    /\ \A k \in 1..(Len(hist) - 2) :
           (/\ IsWrite(k, \h2006) /\ ~hist[k].before.write_toggle
            /\ IsWrite(k + 1, \h2006)
            /\ hist[k + 2].addr = \h2007) =>
               hist[k + 2].before.vram_addr =
                   BitOr(Shl(BitAnd(hist[k].data, \h3F), 8, 16), hist[k + 1].data)
    /\ \A k \in 1..Len(hist) :
           hist[k].addr = \h2007 =>
               After(k).vram_addr = hist[k].before.vram_addr
                   + (IF BitAnd(hist[k].before.ctrl, \h04) # 0 THEN 32 ELSE 1)

\* C8 witness: $FF then $11 written to $2006 from w clear, then a $2007 access at
\* $3F11 that moved the address on by 32.
C8_Witness ==
    /\ Len(hist) = 3
    /\ IsWrite(1, \h2006) /\ ~hist[1].before.write_toggle /\ hist[1].data = \hFF
    /\ IsWrite(2, \h2006) /\ hist[2].data = \h11
    /\ hist[3].addr = \h2007
    /\ hist[3].before.vram_addr = \h3F11
    /\ BitAnd(hist[3].before.ctrl, \h04) # 0
    /\ nes.ppu.vram_addr = \h3F31

\* the last three accesses were: a $2007 write, a re-pointing of the data port,
\* a $2007 read
WriteThenRead ==
    /\ Len(hist) = 3
    /\ IsWrite(1, \h2007)
    /\ hist[2].op = "addr"
    /\ IsRead(3, \h2007)

\* a and b are a palette entry $3F00/$3F04/$3F08/$3F0C and its mirror $10 above
PalettePair(a, b) ==
    \E low \in {\h3F00, \h3F04, \h3F08, \h3F0C} :
        {a, b} = {low, low + \h10}

\* the write went to one address of a palette pair and the read to the other
PaletteEcho ==
    /\ WriteThenRead
    /\ PalettePair(hist[1].before.vram_addr, hist[3].before.vram_addr)

Greyscale(k) == BitAnd(hist[k].before.mask, \h01) # 0

\* C9 (as claimed): a byte v written through $2007 to $3F10/$3F14/$3F18/$3F1C is
\* what a read of $3F00/$3F04/$3F08/$3F0C returns, and the other way round: v itself,
\* or v & $30 when MASK bit 0 is set.
C9_PaletteMirror ==
    PaletteEcho =>
        hist[3].val = (IF Greyscale(3) THEN BitAnd(hist[1].data, \h30)
                       ELSE hist[1].data)

\* C9 (amended): the read returns the low six bits of v, v & $3F, or v & $30 when
\* MASK bit 0 is set.
C9_PaletteMirrorSixBits ==
    PaletteEcho =>
        hist[3].val = BitAnd(hist[1].data,
                             IF Greyscale(3) THEN \h30 ELSE \h3F)

\* C9 witness: $F5 written at $3F10 with greyscale on, read back at $3F00 as $30.
C9_Witness ==
    /\ PaletteEcho
    /\ hist[1].before.vram_addr = \h3F10 /\ hist[1].data = \hF5
    /\ hist[3].before.vram_addr = \h3F00
    /\ Greyscale(3)
    /\ hist[3].val = \h30

\* the 1 KiB nametable that address a selects under the cartridge's mirroring
\* rule: nametables 0,1,2,3 are A,A,B,B when horizontal and A,B,A,B when vertical
Nametable(a, mirroring) ==
    LET n == ((a - \h2000) \div \h400) % 4
    IN IF mirroring = "Horizontal" THEN n \div 2 ELSE n % 2

InNametables(a) == a >= \h2000 /\ a <= \h2FFF

\* C10 (as claimed): nametable addresses that the loaded cartridge's mirroring
\* rule makes the same byte are the same byte through $2007: what was written at
\* one is what a read at the other fetches into the buffer; and a nametable
\* address that the rule keeps apart from the only byte written so far still
\* reads as zero.
C10_NametableMirror ==
    (/\ WriteThenRead
     /\ InNametables(hist[1].before.vram_addr)
     /\ InNametables(hist[3].before.vram_addr)
     /\ hist[1].before.vram_addr % \h400 = hist[3].before.vram_addr % \h400) =>
        LET mirroring == nes.cartridge[1].mirroring
            same == Nametable(hist[1].before.vram_addr, mirroring)
                        = Nametable(hist[3].before.vram_addr, mirroring)
        IN /\ same => nes.ppu.data = hist[1].data
           /\ (~same /\ calls = 3) => nes.ppu.data = 0


(* ====================================================================== *)
(* Program-level view of the bus: images whose programs store to $4014    *)
(* and run into bytes NES::cpu_step has no arm for, followed through      *)
(* load_cartridge, reset and the first MaxWarm run_frame calls of reset.   *)
(* hist records each store to $4014 the program makes.                     *)
(* ====================================================================== *)
MaxWarm == 1

\* LDA #$AB; STA $0200; LDA #$02; STA $4014; .byte $02; NOP; loop: JMP loop
RomDma ==
    Image(<<\hA9, \hAB, \h8D, \h00, \h02, \hA9, \h02, \h8D, \h14, \h40,
            \h02, \hEA, \h4C, \h0C, \h80>>, <<\h40>>, "Horizontal")

\* NOP; LDA #$05; STA $2003; LDA #$CD; STA $0300; LDA #$03; STA $4014;
\* .byte $FF; NOP; loop: JMP loop
RomDmaOdd ==
    Image(<<\hEA, \hA9, \h05, \h8D, \h03, \h20, \hA9, \hCD, \h8D, \h00, \h03,
            \hA9, \h03, \h8D, \h14, \h40, \hFF, \hEA, \h4C, \h12, \h80>>,
          <<\h40>>, "Vertical")

\* the reset vector points at $FFFE, where a JSR stands: JSR $0010 (its high
\* byte is read from $0000)
RomJsrTop ==
    [Image(<<>>, <<\h40>>, "Horizontal")
        EXCEPT !.prg_rom.bytes = BytesAt(\h3FFC, <<\hFE, \hFF, \h20, \h10>>) @@ @]

BootRoms == {RomDma, RomDmaOdd, RomJsrTop}

\* the 16-bit word the CPU would read at address a
Fetch16(m, a) == cpu_read(m, a).val + 256 * cpu_read(m, WrapAdd16(a, 1)).val

\* the instruction at PC is STA with absolute address addr
StoresA(m, addr) ==
    /\ cpu_read(m, m.cpu.pc).val = \h8D
    /\ Fetch16(m, WrapAdd16(m.cpu.pc, 1)) = addr

\* the opcodes the match of NES::cpu_step has an arm for
Implemented ==
    {\h08, \h09, \h0A, \h10, \h18, \h20, \h24, \h28, \h29, \h2A, \h2C, \h30,
     \h38, \h40, \h48, \h49, \h4A, \h4C, \h50, \h58, \h60, \h68, \h69, \h6A,
     \h70, \h78, \h84, \h85, \h86, \h88, \h8A, \h8C, \h8D, \h8E, \h90, \h91,
     \h95, \h98, \h9A, \hA0, \hA2, \hA5, \hA8, \hA9, \hAA, \hAD, \hB0, \hB4,
     \hB5, \hB6, \hB8, \hB9, \hBA, \hBC, \hBD, \hBE, \hC0, \hC6, \hC8, \hC9,
     \hCA, \hD0, \hD8, \hE0, \hE6, \hE8, \hE9, \hEA, \hF0}

\* NES::reset calls run_frame, for the calls that are followed
BootCall ==
    /\ 3 - warm < MaxWarm
    /\ ResetCall

\* run_frame: self.cpu_step(), noting a store to $4014
BootStep ==
    /\ pc = "cpu"
    /\ nes' = cpu_step(nes)
    /\ pc' = "ppu"
    /\ dot' = 0
    /\ hist' = IF StoresA(nes, \h4014)
               THEN Append(hist, [page |-> nes.cpu.a,
                                  dots |-> obs.ppu_dots,
                                  cycles |-> nes.cpu.cycles,
                                  next |-> WrapAdd16(nes.cpu.pc, 3)])
               ELSE hist
    /\ UNCHANGED <<caller, warm, calls, obs>>

\* the instruction at PC makes an unchecked u16 addition that exceeds $FFFF:
\* `self.cpu.pc + 1` of JSR, `((hi << 8) | lo) + 1` of RTS
AddOverflows(m) ==
    \/ /\ cpu_read(m, m.cpu.pc).val = \h20
       /\ WrapAdd16(m.cpu.pc, 1) = \hFFFF
    \/ /\ cpu_read(m, m.cpu.pc).val = \h60
       /\ MemRead(m.ram, \h0100 + WrapAdd8(m.cpu.sp, 1)) = \hFF
       /\ MemRead(m.ram, \h0100 + WrapAdd8(m.cpu.sp, 2)) = \hFF

\* run_frame: self.cpu_step() in a build with overflow checks (the default of
\* a debug build), where such an addition panics; BootStep is the same step
\* in a build without them, where it wraps
BootAbort ==
    /\ pc = "cpu"
    /\ AddOverflows(nes)
    /\ pc' = "panic"
    /\ UNCHANGED <<nes, caller, warm, dot, calls, obs, hist>>

NextBoot ==
    \/ \E image \in BootRoms : LoadCartridge(image)
    \/ Reset
    \/ BootCall
    \/ BootStep
    \/ BootAbort
    \/ PpuDot

SpecBoot == Init /\ [][NextBoot]_vars

(* ---------------------------------------------------------------------- *)
(* Claims about OAM DMA and unknown opcodes (specification SpecBoot)       *)
(* ---------------------------------------------------------------------- *)
\* byte i of the CPU page the accumulator names
PageByte(m, i) == cpu_read(m, (m.cpu.a * 256 + i) % 65536).val

\* C11 (as claimed): a store of `page` to $4014 copies the 256 bytes at CPU
\* addresses page*256 + 0..255 into OAM, byte i landing at OAM index
\* (OAMADDR + i) mod 256.
C11_OamDma ==
    [][(pc = "cpu" /\ StoresA(nes, \h4014))
       => \A i \in 0..255 :
             MemRead(nes'.ppu.oam, (nes.ppu.oam_addr + i) % 256) = PageByte(nes, i)]_vars


\* the PPU dots a transfer started by hist entry e lasts: 513 CPU cycles,
\* 514 when it starts on an odd CPU cycle, three dots to the cycle
StallDots(e) == 3 * (513 + (e.cycles % 2))

\* C12 (as claimed): a store to $4014 stalls the CPU for exactly 513 CPU
\* cycles (514 when it starts on an odd cycle) while the PPU goes on at three
\* dots per stalled cycle: until that many dots have passed since the store,
\* the CPU has executed nothing after it.
C12_DmaStall ==
    \A k \in DOMAIN hist :
        obs.ppu_dots - hist[k].dots < StallDots(hist[k]) => nes.cpu.pc = hist[k].next


\* C19 (as claimed): an opcode the CPU does not implement executes as a NOP:
\* PC advances by exactly 1, two CPU cycles are counted, and no register,
\* flag or memory changes.
C19_UnknownOpcode ==
    [][(pc = "cpu" /\ cpu_read(nes, nes.cpu.pc).val \notin Implemented)
       => nes' = [nes EXCEPT !.cpu.pc = WrapAdd16(@, 1), !.cpu.cycles = @ + 2]]_vars


(* ====================================================================== *)
(* Controller-level view: the accesses to $4016 a program makes through   *)
(* NES::cpu_read / NES::cpu_write, the front end's set_controller_state    *)
(* calls, and one run_frame call, starting from the console as             *)
(* load_cartridge and the head of reset leave it.  hist describes the      *)
(* accesses since the strobe was last written:                             *)
(*   fell   the strobe went from 1 to 0 and has been 0 since               *)
(*   mask   controller1 when it fell                                       *)
(*   snap   controller1_shift when it fell                                 *)
(*   clean  no read of $4016 was made while the strobe was 1               *)
(*   bits   the values read since it fell                                  *)
(*   high   the reads made while the strobe is 1: the value read and       *)
(*          whether the A button was down at that moment                   *)
(*   set, wrote0, ran   since it fell: set_controller_state was called,    *)
(*          0 was stored to $4016 again, run_frame ran                     *)
(* ====================================================================== *)
MaxHigh == 2

BUTTON_A == 128  \* 0x80

\* the masks the front end sets
Buttons == {\h01, \h80, \h16}

\* NES::set_controller_state with the reload unconditional
set_controller_state_Reload(m, buttons) ==
    [m EXCEPT !.controller1 = buttons, !.controller1_shift = buttons]

\* NES::set_controller_state
set_controller_state(m, buttons) ==
    [m EXCEPT !.controller1 = buttons,
              !.controller1_shift = IF m.controller_strobe THEN buttons ELSE @]

PadHist ==
    [fell |-> FALSE, mask |-> 0, snap |-> 0, clean |-> TRUE, bits |-> <<>>,
     high |-> <<>>, set |-> FALSE, wrote0 |-> FALSE, ran |-> FALSE]

InitPad ==
    /\ LET cart == Image(<<>>, <<>>, "Horizontal")
       IN nes = [NES_new EXCEPT !.cartridge = Some(cart),
                                !.cpu = CPU_reset(@, cart),
                                !.ppu = PPU_reset(@)]
    /\ pc = "regs"
    /\ caller = "main"
    /\ warm = 0
    /\ dot = 0
    /\ calls = 0
    /\ obs = ObsInit
    /\ hist = PadHist

\* hist after a store of data to $4016 in console m
PadStored(h, m, data) ==
    IF BitAnd(data, 1) # 0
    THEN PadHist
    ELSE IF m.controller_strobe
    THEN [PadHist EXCEPT !.fell = TRUE, !.mask = m.controller1,
                         !.snap = m.controller1_shift, !.clean = (h.high = <<>>)]
    ELSE [h EXCEPT !.wrote0 = TRUE]

\* hist after a load from $4016 in console m that returned val
PadLoaded(h, m, val) ==
    IF m.controller_strobe
    THEN [h EXCEPT !.high = Append(@, [val |-> val,
                                       a |-> BitAnd(m.controller1, BUTTON_A) # 0])]
    ELSE [h EXCEPT !.bits = Append(@, val)]

\* a store to $4016: NES::cpu_write
PadWrite(data) ==
    /\ pc = "regs"
    /\ nes' = cpu_write(nes, \h4016, data)
    /\ hist' = PadStored(hist, nes, data)
    /\ UNCHANGED <<pc, caller, warm, dot, calls, obs>>

\* a load from $4016: NES::cpu_read
PadRead ==
    /\ pc = "regs"
    /\ IF nes.controller_strobe THEN Len(hist.high) < MaxHigh ELSE Len(hist.bits) < 8
    /\ nes' = cpu_read(nes, \h4016).nes
    /\ hist' = PadLoaded(hist, nes, cpu_read(nes, \h4016).val)
    /\ UNCHANGED <<pc, caller, warm, dot, calls, obs>>

\* the front end reports the buttons: NES::set_controller_state
SetButtons(buttons) ==
    /\ pc = "regs"
    /\ nes' = set_controller_state(nes, buttons)
    /\ hist' = [hist EXCEPT !.set = TRUE]
    /\ UNCHANGED <<pc, caller, warm, dot, calls, obs>>

\* a call of run_frame (the first after the head of reset)
PadFrame ==
    /\ pc = "regs"
    /\ obs.frames = 0
    /\ EnterRunFrame("pad")
    /\ hist' = [hist EXCEPT !.ran = TRUE]
    /\ UNCHANGED <<warm, calls>>

NextPad ==
    \/ \E data \in {0, 1} : PadWrite(data)
    \/ PadRead
    \/ \E buttons \in Buttons : SetButtons(buttons)
    \/ PadFrame
    \/ CpuStep
    \/ PpuDot

SpecPad == InitPad /\ [][NextPad]_vars

(* ---------------------------------------------------------------------- *)
(* Claims about controller 1 (specification SpecPad)                       *)
(* ---------------------------------------------------------------------- *)
\* bit k (0 = least significant) of byte m
BitOf(m, k) == Shr(m, k) % 2

\* C13 (as claimed): after a strobe (1 then 0 stored to $4016) with the mask m
\* that set_controller_state was given, laid out A=$01, B=$02, Select=$04,
\* Start=$08, Up=$10, Down=$20, Left=$40, Right=$80, the next eight reads of
\* $4016 return bits 0..7 of m in that order, least significant first.
C13_ReadOrder ==
    (hist.fell /\ hist.clean)
        => \A k \in 1..Len(hist.bits) : hist.bits[k] = BitOf(hist.mask, k - 1)


\* C14 (as claimed): while the strobe latch is 1, every read of $4016, however
\* many are made in a row, returns the current state of the A button.
C14_StrobeHighReads ==
    \A k \in DOMAIN hist.high :
        hist.high[k].val = (IF hist.high[k].a THEN 1 ELSE 0)

\* C15: the controller-1 snapshot is frozen when the strobe goes from 1 to 0:
\* while the strobe stays 0, set_controller_state calls, run_frame and further
\* stores of 0 to $4016 leave the bits still to be read as they were; only the
\* reads themselves shift them out.
C15_SnapshotFrozen ==
    hist.fell =>
        /\ ~nes.controller_strobe
        /\ nes.controller1_shift = Shl(hist.snap, Len(hist.bits), 8)

\* the strobe fell with buttons down, one bit has been read, and since the fall
\* the front end has set other buttons, 0 was stored again and run_frame ran
C15_Witness ==
    /\ hist.fell /\ hist.set /\ hist.wrote0 /\ hist.ran
    /\ pc = "regs"
    /\ obs.frames = 1
    /\ Len(hist.bits) = 1
    /\ nes.controller1 # hist.mask
    /\ nes.controller1_shift # 0


(* ====================================================================== *)
(* Loading: Cartridge::new applied to image files, and the calls of       *)
(* reset and run_frame the console accepts around it.  A file is the      *)
(* header bytes the loader looks at (0..7), its length in bytes and its    *)
(* non-zero bytes by offset.  hist is the log of the calls made.           *)
(* ====================================================================== *)
ImageFile(magic3, prg, chr, flags6, flags7, len) ==
    [header |-> [i \in 0..7 |-> <<78, 69, 83, magic3, prg, chr, flags6, flags7>>[i + 1]],
     len |-> len,
     bytes |-> EmptyMem]

\* the length of the file a header announces
DeclaredLen(prg, chr, flags6) ==
    16 + (IF BitAnd(flags6, \h04) # 0 THEN 512 ELSE 0) + prg * 16384 + chr * 8192

\* the files with one header: the whole file, and the file cut short by 1 or
\* by 8193 bytes
FilesOf(magic3, prg, chr, flags6, flags7) ==
    {ImageFile(magic3, prg, chr, flags6, flags7, DeclaredLen(prg, chr, flags6) - cut) :
        cut \in {c \in {0, 1, 8193} : c <= DeclaredLen(prg, chr, flags6)}}

\* the files the console is given: well-formed and malformed headers
Files ==
    UNION {FilesOf(magic3, prg, chr, flags6, flags7) :
              magic3 \in {26, 0}, prg \in 0..2, chr \in 0..1,
              flags6 \in {\h00, \h01, \h04, \h10}, flags7 \in {\h00, \h10}}

\* file.read_exact into a Vec of n bytes at offset off
Slice(file, off, n) ==
    Vec(n, [i \in {j - off : j \in {k \in DOMAIN file.bytes : k >= off /\ k < off + n}}
                |-> file.bytes[i + off]])

Err(e) == [ok |-> FALSE, error |-> e]

Ok(c) == [ok |-> TRUE, cartridge |-> c]

\* Cartridge::new from the CHR read on; prg_at and chr_at are the file offsets
ReadChr(file, prg_at, chr_at, prg_rom_size, chr_rom_size, mapper, mirroring) ==
    IF chr_rom_size > 0 /\ file.len < chr_at + chr_rom_size
    THEN Err("failed to fill whole buffer")
    ELSE Ok([prg_rom |-> Slice(file, prg_at, prg_rom_size),
             chr_rom |-> IF chr_rom_size > 0 THEN Slice(file, chr_at, chr_rom_size)
                         ELSE Vec(8192, EmptyMem),
             mapper |-> mapper,
             mirroring |-> mirroring])

\* Cartridge::new from the PRG read on
ReadPrg(file, prg_at, prg_rom_size, chr_rom_size, mapper, mirroring) ==
    IF file.len < prg_at + prg_rom_size
    THEN Err("failed to fill whole buffer")
    ELSE ReadChr(file, prg_at, prg_at + prg_rom_size, prg_rom_size, chr_rom_size,
                 mapper, mirroring)

\* Cartridge::new from the trainer on
SkipTrainer(file, flags6, flags7) ==
    IF BitAnd(flags6, \h04) # 0 /\ file.len < 16 + 512
    THEN Err("failed to fill whole buffer")
    ELSE ReadPrg(file, 16 + (IF BitAnd(flags6, \h04) # 0 THEN 512 ELSE 0),
                 file.header[4] * 16384, file.header[5] * 8192,
                 BitOr(BitAnd(flags7, \hF0), Shr(flags6, 4)),
                 IF BitAnd(flags6, \h01) # 0 THEN "Vertical" ELSE "Horizontal")

Cartridge_new(file) ==
    IF file.len < 16
    THEN Err("failed to fill whole buffer")
    ELSE IF <<file.header[0], file.header[1], file.header[2], file.header[3]>>
            # <<78, 69, 83, 26>>
    THEN Err("Invalid ROM file format")
    ELSE SkipTrainer(file, file.header[6], file.header[7])

\* self.cartridge.is_some(), always true
Steppable_Always(m) == TRUE

\* self.cartridge.is_some()
Steppable(m) == m.cartridge # None

\* read_prg on this cartridge takes its `_` arm with a length of zero:
\* `address % self.prg_rom.len()` divides by zero
ReadPrgAborts(cartridge) == cartridge.prg_rom.len = 0

Called(op, arg) == [op |-> op, arg |-> arg]

\* NES::load_cartridge on a file
LoadFile(file) ==
    /\ pc = "new"
    /\ hist = <<>>
    /\ nes' = IF Cartridge_new(file).ok
              THEN [nes EXCEPT !.cartridge = Some(Cartridge_new(file).cartridge)]
              ELSE nes
    /\ pc' = IF Cartridge_new(file).ok THEN "loaded" ELSE "failed"
    /\ hist' = <<Called("load", <<file>>)>>
    /\ UNCHANGED <<caller, warm, dot, calls, obs>>

\* NES::reset up to its loop of three run_frame calls, on any console:
\* nothing without a cartridge; CPU::reset reads the vector through read_prg
CallReset ==
    /\ pc \in {"new", "failed", "loaded"}
    /\ calls < MaxOps
    /\ calls' = calls + 1
    /\ hist' = Append(hist, Called("reset", <<>>))
    /\ IF nes.cartridge = None
       THEN UNCHANGED <<nes, pc, warm, obs>>
       ELSE IF ReadPrgAborts(nes.cartridge[1])
       THEN /\ pc' = "panic"
            /\ UNCHANGED <<nes, warm, obs>>
       ELSE /\ nes' = [nes EXCEPT !.cpu = CPU_reset(@, nes.cartridge[1]),
                                  !.ppu = PPU_reset(@),
                                  !.cycles = 0]
            /\ pc' = "reset"
            /\ warm' = 3
            /\ obs' = ObsInit
    /\ UNCHANGED <<caller, dot>>

\* NES::run_frame on a console that has not been reset: the loop is entered
\* only with a cartridge
CallRunFrame ==
    /\ pc \in {"new", "failed"}
    /\ calls < MaxOps
    /\ calls' = calls + 1
    /\ hist' = Append(hist, Called("run_frame", <<>>))
    /\ nes' = IF Steppable(nes) THEN [nes EXCEPT !.frame_complete = FALSE] ELSE nes
    /\ pc' = IF Steppable(nes) THEN "cpu" ELSE pc
    /\ UNCHANGED <<caller, warm, dot, obs>>

NextLoad ==
    \/ \E file \in Files : LoadFile(file)
    \/ CallReset
    \/ CallRunFrame

SpecLoad == Init /\ [][NextLoad]_vars

(* ---------------------------------------------------------------------- *)
(* Claims about loading and the empty console (specification SpecLoad)     *)
(* ---------------------------------------------------------------------- *)
\* the file of the load_cartridge call in the log, if any
LoadedFiles == {hist[k].arg[1] : k \in {j \in DOMAIN hist : hist[j].op = "load"}}

BadMagic(f) ==
    <<f.header[0], f.header[1], f.header[2], f.header[3]>> # <<78, 69, 83, 26>>

Truncated(f) == f.len < DeclaredLen(f.header[4], f.header[5], f.header[6])

\* the iNES mapper number of the header; only mapper 0 (NROM) is supported
MapperOf(f) == BitOr(BitAnd(f.header[7], \hF0), Shr(f.header[6], 4))

\* C16 (as claimed): loading an image with a bad magic, truncated PRG/CHR data
\* or an unsupported mapper returns a load error.
C16_LoadError ==
    \A f \in LoadedFiles :
        (BadMagic(f) \/ Truncated(f) \/ MapperOf(f) # 0)
            => (pc = "failed" /\ nes.cartridge = None)


\* C17: with no cartridge loaded, reset and run_frame execute no CPU
\* instruction and no PPU dot, leave the CPU registers, RAM and PPU state as
\* they were, and return instead of looping.
C17_EmptyConsole ==
    nes.cartridge = None
        => /\ pc \in {"new", "failed"}
           /\ nes = NES_new
           /\ obs = ObsInit

\* a load failed, and reset and run_frame have both been called since
C17_Witness ==
    /\ pc = "failed"
    /\ nes.cartridge = None
    /\ \E i, j \in DOMAIN hist :
          /\ 1 < i /\ i < j
          /\ {hist[i].op, hist[j].op} = {"reset", "run_frame"}


(* ---------------------------------------------------------------------- *)
(* Claims about aborts and reset                                           *)
(* ---------------------------------------------------------------------- *)
\* C18 (as claimed, specification SpecBoot): after a successful load no step
\* of run_frame can abort, whatever the ROM holds: no addition or subtraction
\* on PC, SP, v or a bus address overflows (JSR and RTS at PC $FFFF included),
\* no index is out of range, nothing is taken modulo zero.
C18_NoAbort == pc # "panic"


\* C20 (as claimed, specification Spec): when reset returns on a console with
\* a cartridge, SP = $FD, A = X = Y = 0, P = $24, PC is the word at
\* $FFFC/$FFFD, the CPU and master cycle counters are 0, the PPU's registers,
\* latches and position are cleared, and no instruction has executed yet.
C20_ResetState ==
    (pc = "idle" /\ calls = 0)
        => /\ nes.cpu.sp = \hFD
           /\ nes.cpu.a = 0 /\ nes.cpu.x = 0 /\ nes.cpu.y = 0
           /\ nes.cpu.p = \h24
           /\ nes.cpu.pc = Fetch16(nes, \hFFFC)
           /\ nes.cpu.cycles = 0
           /\ nes.cycles = 0
           /\ nes.ppu.ctrl = 0 /\ nes.ppu.mask = 0
           /\ ~nes.ppu.write_toggle /\ nes.ppu.fine_x_scroll = 0
           /\ nes.ppu.cycle = 0
           /\ obs.ppu_dots = 0


(* ---------------------------------------------------------------------- *)
(* Claims about the PPU's position and VBlank flag, and the NMI sequence   *)
(* (specification Spec)                                                    *)
(* ---------------------------------------------------------------------- *)
\* C28 (as claimed): in every reachable PPU state, the state right after
\* construction and right after reset included, scanline is in -1..260 and
\* cycle is in 0..340 (the positions PPU::step then walks in increasing
\* order, wrapping from scanline 260 to -1).
C28_Position ==
    /\ nes.ppu.scanline \in -1..260
    /\ nes.ppu.cycle \in 0..340

\* STATUS bit 7 of PPU p
InVBlank(p) == BitAnd(p.status, \h80) # 0

\* p stands after scanline 241 dot 1 and before scanline -1 dot 1
VBlankSpan(p) ==
    \/ p.scanline = 241 /\ p.cycle >= 2
    \/ p.scanline >= 242 /\ p.scanline <= 260
    \/ p.scanline = -1 /\ p.cycle = 0

\* C29 (as claimed): STATUS bit 7, once set at scanline 241 dot 1, stays set
\* (absent a $2002 read) through the end of scanline 260; the dot at scanline
\* -1, cycle 1 clears it together with bits 6 and 5, and no earlier dot does.
C29_VBlankHeld ==
    [][/\ (pc = "ppu" /\ InVBlank(nes.ppu) /\ VBlankSpan(nes.ppu))
            => InVBlank(nes'.ppu)
       /\ (pc = "ppu" /\ nes.ppu.scanline = -1 /\ nes.ppu.cycle = 1)
            => BitAnd(nes'.ppu.status, \hE0) = 0]_vars

\* the console after the NMI sequence entered in console m, as claimed
NmiDone(m, n) ==
    /\ MemRead(n.ram, \h0100 + m.cpu.sp) = Shr(m.cpu.pc, 8)
    /\ MemRead(n.ram, \h0100 + WrapSub8(m.cpu.sp, 1)) = BitAnd(m.cpu.pc, \hFF)
    /\ MemRead(n.ram, \h0100 + WrapSub8(m.cpu.sp, 2))
          = BitOr(BitAnd(m.cpu.p, Not8(\h10)), \h20)
    /\ n.cpu.sp = WrapSub8(m.cpu.sp, 3)
    /\ n.cpu.p = BitOr(m.cpu.p, \h04)
    /\ n.cpu.pc = Fetch16(m, \hFFFA)
    /\ n.cpu.cycles = m.cpu.cycles + 7

\* C30 (as claimed): the NMI sequence, entered with program counter PC and
\* status P, writes PC high to $0100+SP, PC low to $0100+(SP-1) and P with bit
\* 4 clear and bit 5 set to $0100+(SP-2), takes 3 from SP modulo 256, sets the
\* I flag, loads PC from $FFFA/$FFFB and charges 7 CPU cycles.
C30_NmiSequence ==
    [][(obs'.delivered = obs.delivered + 1) => NmiDone(nes, nes')]_vars


(* ====================================================================== *)
(* Instruction-level view: short programs followed instruction by         *)
(* instruction through load_cartridge, reset and the start of its first    *)
(* run_frame call.  Each program sets up the registers it needs with       *)
(* instructions of its own, so every state is one a program can reach.     *)
(* hist keeps the last three instructions executed: the opcode, its        *)
(* address, the byte after it, and the CPU before and after.               *)
(* ====================================================================== *)
MaxSteps == 10

\* LDX #sp; TXS; LDA #a; PHA; PLA; loop: JMP loop
RomPhaPla(sp, a) ==
    Image(<<\hA2, sp, \h9A, \hA9, a, \h48, \h68, \h4C, \h07, \h80>>,
          <<\h40>>, "Horizontal")

\* LDX #sp; TXS; LDA #p; PHA; PLP; PHP; PLP; loop: JMP loop
RomPhpPlp(sp, p) ==
    Image(<<\hA2, sp, \h9A, \hA9, p, \h48, \h28, \h08, \h28, \h4C, \h09, \h80>>,
          <<\h40>>, "Horizontal")

\* LDX #sp; TXS; JSR $8020; loop: JMP loop          $8020: RTS
RomJsrRts(sp) ==
    Image(<<\hA2, sp, \h9A, \h20, \h20, \h80, \h4C, \h06, \h80>>,
          <<\h60>>, "Horizontal")

\* LDA #p; PHA; PLP; LDA #a; op #m; loop: JMP loop     (op: ADC $69, SBC $E9)
RomArith(op, p, a, m) ==
    Image(<<\hA9, p, \h48, \h28, \hA9, a, op, m, \h4C, \h08, \h80>>,
          <<\h40>>, "Horizontal")

StackPointers == {\hFD, \h00, \h01, \hFF}

ProgRoms ==
    {RomPhaPla(sp, a) : sp \in StackPointers, a \in {\h00, \h5A, \h80, \hFF}}
    \cup {RomPhpPlp(sp, p) : sp \in StackPointers, p \in {\h00, \h24, \hCB, \hFF}}
    \cup {RomJsrRts(sp) : sp \in StackPointers}
    \cup {RomArith(op, p, a, m) :
             op \in {\h69, \hE9}, p \in {\h20, \h21, \h28, \h29},
             a \in {\h00, \h50, \h7F, \h80, \hFF},
             m \in {\h00, \h01, \h50, \h80, \hB0, \hFF}}

\* one executed instruction: m the console before it, n the console after
Executed(m, n) ==
    [op |-> cpu_read(m, m.cpu.pc).val,
     at |-> m.cpu.pc,
     arg |-> cpu_read(m, WrapAdd16(m.cpu.pc, 1)).val,
     before |-> m.cpu,
     after |-> n.cpu]

\* run_frame: self.cpu_step(), for the first MaxSteps instructions
ProgStep ==
    /\ pc = "cpu"
    /\ nes.cpu.cycles < MaxSteps
    /\ nes' = cpu_step(nes)
    /\ pc' = "ppu"
    /\ dot' = 0
    /\ hist' = Window(hist, Executed(nes, cpu_step(nes)))
    /\ UNCHANGED <<caller, warm, calls, obs>>

NextProg ==
    \/ \E image \in ProgRoms : LoadCartridge(image)
    \/ Reset
    \/ ResetCall
    \/ ProgStep
    \/ PpuDot

SpecProg == Init /\ [][NextProg]_vars

(* ---------------------------------------------------------------------- *)
(* Claims about instructions (specification SpecProg)                      *)
(* ---------------------------------------------------------------------- *)
\* instructions k and k+1 of hist have opcodes op1 and op2 and were executed
\* one right after the other
Pair(k, op1, op2) ==
    /\ k \in DOMAIN hist /\ k + 1 \in DOMAIN hist
    /\ hist[k].op = op1 /\ hist[k + 1].op = op2

\* C24 (as claimed): PHA immediately followed by PLA leaves A and SP as they
\* were before the PHA; PHP immediately followed by PLP leaves SP as before and
\* P equal to its previous value with bit 4 (B) cleared and bit 5 (U) set; for
\* every A, P and SP, SP wrapping at $00/$FF included.
C24_StackRoundTrip ==
    \A k \in DOMAIN hist :
        /\ Pair(k, \h48, \h68)
              => /\ hist[k + 1].after.a = hist[k].before.a
                 /\ hist[k + 1].after.sp = hist[k].before.sp
        /\ Pair(k, \h08, \h28)
              => /\ hist[k + 1].after.sp = hist[k].before.sp
                 /\ hist[k + 1].after.p
                       = BitOr(BitAnd(hist[k].before.p, Not8(\h10)), \h20)



\* the 16-bit address a JSR at address at is to leave on the stack
ReturnAddress(at) == WrapAdd16(at, 2)

\* C25: a JSR at address a pushes the high byte and then the low byte of a+2
\* and jumps to its operand; an RTS at the target pops them and resumes at
\* a+3 with SP back at its value before the JSR.
C25_JsrRts ==
    \A k \in DOMAIN hist :
        /\ hist[k].op = \h20
              => /\ cpu_read(nes, \h0100 + hist[k].before.sp).val
                       = Shr(ReturnAddress(hist[k].at), 8)
                 /\ cpu_read(nes, \h0100 + WrapSub8(hist[k].before.sp, 1)).val
                       = BitAnd(ReturnAddress(hist[k].at), \hFF)
                 /\ hist[k].after.sp = WrapSub8(hist[k].before.sp, 2)
                 /\ hist[k].after.pc = Fetch16(nes, WrapAdd16(hist[k].at, 1))
        /\ Pair(k, \h20, \h60)
              => /\ hist[k + 1].at = hist[k].after.pc
                 /\ hist[k + 1].after.pc = WrapAdd16(hist[k].at, 3)
                 /\ hist[k + 1].after.sp = hist[k].before.sp

\* a JSR and the RTS at its target have run, with the stack pointer wrapping
C25_Witness ==
    /\ Pair(1, \h20, \h60)
    /\ hist[1].before.sp = \h00
    /\ hist[2].after.sp = \h00
    /\ hist[2].after.pc = \h8006

\* flag is set in the status byte p
ArithFlag(p, flag) == BitAnd(p, flag) # 0

\* the accumulator ADC and SBC are to leave, c the carry-in as 0 or 1
AdcResult(a, m, c) == (a + m + c) % 256

SbcResult(a, m, c) == (a - m - (1 - c) + 256) % 256

\* C26 (as claimed): ADC leaves A = (A + M + C) mod 256, C set iff the sum
\* exceeds $FF, V set iff ((A ^ result) & (M ^ result) & $80) # 0; SBC leaves
\* A = (A - M - (1 - C)) mod 256, C set iff no borrow occurred, V set iff
\* ((A ^ result) & (A ^ M) & $80) # 0; both set Z iff the result is 0 and N iff
\* its bit 7 is set, whatever the D flag.
C26_AdcSbc ==
    \A k \in DOMAIN hist :
        LET e == hist[k]
            a == e.before.a
            c == IF ArithFlag(e.before.p, \h01) THEN 1 ELSE 0
            r == e.after.a
        IN /\ e.op = \h69
                => /\ r = AdcResult(a, e.arg, c)
                   /\ ArithFlag(e.after.p, \h01) = (a + e.arg + c > \hFF)
                   /\ ArithFlag(e.after.p, \h40)
                         = (BitAnd(BitAnd(BitXor(a, r), BitXor(e.arg, r)), \h80) # 0)
                   /\ ArithFlag(e.after.p, \h02) = (r = 0)
                   /\ ArithFlag(e.after.p, \h80) = (BitAnd(r, \h80) # 0)
           /\ e.op = \hE9
                => /\ r = SbcResult(a, e.arg, c)
                   /\ ArithFlag(e.after.p, \h01) = (a - e.arg - (1 - c) >= 0)
                   /\ ArithFlag(e.after.p, \h40)
                         = (BitAnd(BitAnd(BitXor(a, r), BitXor(a, e.arg)), \h80) # 0)
                   /\ ArithFlag(e.after.p, \h02) = (r = 0)
                   /\ ArithFlag(e.after.p, \h80) = (BitAnd(r, \h80) # 0)



(* ====================================================================== *)
(* Bus-level view of RAM and cartridge space: the loads and stores of a    *)
(* program, applied through NES::cpu_read and NES::cpu_write to a console  *)
(* that has a cartridge and has been reset.                                *)
(* ====================================================================== *)
\* RAM index 0 and RAM index $07FF, each through its mirrors
RamAddrs == {\h0000, \h0800, \h1000, \h1800, \h07FF, \h0FFF, \h17FF, \h1FFF}

RamData == {\hA5, \h3C}

NextRam ==
    \/ \E addr \in RamAddrs, data \in RamData : RegWrite(addr, data)
    \/ \E addr \in RamAddrs : RegRead(addr)

SpecRam == InitPPU /\ [][NextRam]_vars

\* a 16 KiB and a 32 KiB PRG-ROM whose first and last bytes, and the bytes on
\* both sides of the 16 KiB boundary, differ
Prg16 ==
    [Image(<<>>, <<>>, "Horizontal")
        EXCEPT !.prg_rom = Vec(16384, BytesAt(0, <<\h11>>) @@ BytesAt(\h3FFF, <<\h22>>))]

Prg32 ==
    [Image(<<>>, <<>>, "Horizontal")
        EXCEPT !.prg_rom = Vec(32768, BytesAt(0, <<\h11>>) @@ BytesAt(\h3FFF, <<\h22>>)
                                      @@ BytesAt(\h4000, <<\h33>>)
                                      @@ BytesAt(\h7FFF, <<\h44>>))]

PrgImages == {Prg16, Prg32}

PrgAddrs == {\h8000, \hBFFF, \hC000, \hFFFF}

InitPrg ==
    /\ \E cart \in PrgImages :
          nes = [NES_new EXCEPT !.cartridge = Some(cart),
                                !.cpu = CPU_reset(@, cart),
                                !.ppu = PPU_reset(@)]
    /\ pc = "regs"
    /\ caller = "main"
    /\ warm = 0
    /\ dot = 0
    /\ calls = 0
    /\ obs = ObsInit
    /\ hist = <<>>

NextPrg ==
    \/ \E addr \in PrgAddrs, data \in RamData : RegWrite(addr, data)
    \/ \E addr \in PrgAddrs : RegRead(addr)

SpecPrg == InitPrg /\ [][NextPrg]_vars

(* ---------------------------------------------------------------------- *)
(* Claims about the CPU's address space (specifications SpecRam, SpecPrg)  *)
(* ---------------------------------------------------------------------- *)
\* addresses a and b agree in their low 11 bits
SameCell(a, b) == BitAnd(a, \h07FF) = BitAnd(b, \h07FF)

\* RAM bytes other than index i are the same in r and s
SameButAt(r, s, i) ==
    \A j \in ((DOMAIN r) \cup (DOMAIN s)) \ {i} : MemRead(r, j) = MemRead(s, j)

\* in the window h of accesses, a read that directly follows a write to the
\* same cell returns the byte written
ReadBack(h) ==
    \A k \in DOMAIN h :
        (/\ k + 1 \in DOMAIN h
         /\ h[k].op = "write" /\ h[k + 1].op = "read"
         /\ SameCell(h[k].addr, h[k + 1].addr))
            => h[k + 1].val = h[k].data

\* if access e was a write, it took RAM from r to s by storing its data at
\* the index of its address and nowhere else
WroteTo(e, r, s) ==
    e.op = "write"
       => /\ SameButAt(r, s, BitAnd(e.addr, \h07FF))
          /\ MemRead(s, BitAnd(e.addr, \h07FF)) = e.data

\* C22: a byte written to an address a in $0000-$1FFF is read back at every
\* address that agrees with a in its low 11 bits (a, a xor $0800, a xor $1000,
\* a xor $1800), and the write changes no RAM byte other than index a & $07FF.
C22_RamMirror ==
    [][/\ ReadBack(hist')
       /\ WroteTo(hist'[Len(hist')], nes.ram, nes'.ram)]_vars

\* a byte written at $1FFF has been read back at $07FF while index 0 holds
\* another byte
C22_Witness ==
    /\ Len(hist) = 3
    /\ hist[1].op = "write" /\ hist[1].addr = \h0800 /\ hist[1].data = \h3C
    /\ hist[2].op = "write" /\ hist[2].addr = \h1FFF /\ hist[2].data = \hA5
    /\ hist[3].op = "read" /\ hist[3].addr = \h07FF /\ hist[3].val = \hA5
    /\ MemRead(nes.ram, 0) = \h3C

\* C23: a read at $8000+i returns prg[i mod len]: with 16 KiB the reads at
\* $8000+i and $C000+i return the same byte prg[i], with 32 KiB the read at
\* $8000+i returns prg[i]; stores to $8000-$FFFF change no byte of the
\* cartridge, so later reads return what earlier ones did.
C23_PrgMirror ==
    /\ nes.cartridge \in {Some(cart) : cart \in PrgImages}
    /\ \A k \in DOMAIN hist :
          hist[k].op = "read"
             => hist[k].val
                   = VecAt(nes.cartridge[1].prg_rom,
                           (hist[k].addr - \h8000) % nes.cartridge[1].prg_rom.len)

\* with a 16 KiB PRG-ROM a store to $FFFF was followed by reads of the same
\* non-zero byte at $BFFF and $FFFF
C23_Witness ==
    /\ nes.cartridge = Some(Prg16)
    /\ Len(hist) = 3
    /\ hist[1].op = "write" /\ hist[1].addr = \hFFFF
    /\ hist[2].op = "read" /\ hist[2].addr = \hBFFF /\ hist[2].val = \h22
    /\ hist[3].op = "read" /\ hist[3].addr = \hFFFF /\ hist[3].val = \h22



(* ====================================================================== *)
(* Picture-level view: programs that switch rendering on, followed through *)
(* load_cartridge and reset into the first visible scanline of the second  *)
(* warm-up frame.  The cartridge's tile 0 is solid, so the background is   *)
(* opaque there; OAM is as PPU::new left it, so sprite 0 sits at (0, 0).   *)
(* ====================================================================== *)
MaxDots == 700

\* LDA #mask; STA $2001; loop: JMP loop, over a CHR-ROM whose tile 0 is solid
RomDraw(mask) ==
    [Image(<<\hA9, mask, \h8D, \h01, \h20, \h4C, \h05, \h80>>, <<\h40>>, "Horizontal")
        EXCEPT !.chr_rom = Vec(8192, BytesAt(0, <<\hFF, \hFF, \hFF, \hFF,
                                                  \hFF, \hFF, \hFF, \hFF>>))]

DrawRoms == {RomDraw(mask) : mask \in {\h18, \h1E, \h08, \h10}}

\* run_frame: self.cpu_step(), for the first MaxDots dots after reset
DrawStep ==
    /\ obs.ppu_dots < MaxDots
    /\ CpuStep

NextDraw ==
    \/ \E image \in DrawRoms : LoadCartridge(image)
    \/ Reset
    \/ ResetCall
    \/ DrawStep
    \/ PpuDot

SpecDraw == Init /\ [][NextDraw]_vars

(* ---------------------------------------------------------------------- *)
(* Claims about the picture (specification SpecDraw)                       *)
(* ---------------------------------------------------------------------- *)
\* the PPU as PPU::step hands it to render_pixel
RenderInput(p, cartridge) ==
    StepTransferY(StepTransferX(StepScrollY(StepFetch(StepSkip(p), cartridge))))

\* render_pixel's bg_pixel: the two pattern shifter bits selected by fine X
BgPixel(p) ==
    IF BitAnd(p.mask, \h08) # 0
    THEN BitAnd(Shr(p.bg_shifter_pattern_lo, 15 - p.fine_x_scroll), 1)
         + 2 * BitAnd(Shr(p.bg_shifter_pattern_hi, 15 - p.fine_x_scroll), 1)
    ELSE 0

\* render_pixel runs on p at a visible dot where the sprite pixel comes from
\* OAM entry 0, background and sprite pixel are both non-zero, both kinds of
\* rendering are enabled and x is not 255
Sprite0Overlap(p) ==
    /\ p.scanline >= 0 /\ p.scanline < 240
    /\ p.cycle >= 1 /\ p.cycle <= 256
    /\ p.cycle - 1 # 255
    /\ BitAnd(p.mask, \h08) # 0 /\ BitAnd(p.mask, \h10) # 0
    /\ SpriteCovers(p, 0, p.cycle - 1, p.scanline)
    /\ BgPixel(p) # 0

Sprite0Hit(p) == BitAnd(p.status, \h40) # 0

\* C27 (as claimed): STATUS bit 6 is set on a visible dot when the sprite pixel
\* chosen there comes from OAM entry 0, background and sprite pixel are both
\* non-zero, both kinds of rendering are enabled and x is not 255; once set it
\* stays set until the pre-render scanline.
C27_Sprite0Hit ==
    [][/\ (pc = "ppu" /\ Sprite0Overlap(RenderInput(nes.ppu, nes.cartridge[1])))
             => Sprite0Hit(nes'.ppu)
       /\ (Sprite0Hit(nes.ppu) /\ nes'.ppu.scanline # -1)
             => Sprite0Hit(nes'.ppu)]_vars



(* ====================================================================== *)
(* Reload view: main loads and resets, may run frames, then loads the same *)
(* image and resets again.  hist holds the CPU and PPU as each reset left  *)
(* them.                                                                   *)
(* ====================================================================== *)
\* INX; LDA #$55; STA $2004; loop: JMP loop
RomInxOam ==
    Image(<<\hE8, \hA9, \h55, \h8D, \h04, \h20, \h4C, \h06, \h80>>,
          <<\h40>>, "Horizontal")

\* the CPU and the PPU (registers, latches, position, VRAM, palette, OAM) of m
Snapshot(m) == [cpu |-> m.cpu, ppu |-> [m.ppu EXCEPT !.fb_last = <<>>]]

\* NES::reset returns
ResetReturns ==
    /\ pc = "reset"
    /\ warm = 0
    /\ pc' = "idle"
    /\ hist' = Append(hist, Snapshot(nes))
    /\ UNCHANGED <<nes, caller, warm, dot, calls, obs>>

\* main calls run_frame between the two resets
BetweenFrame ==
    /\ Len(hist) = 1
    /\ RunFrame

\* NES::load_cartridge with the image already loaded
Reload ==
    /\ pc = "idle"
    /\ Len(hist) = 1
    /\ nes' = [nes EXCEPT !.cartridge = Some(nes.cartridge[1])]
    /\ pc' = "loaded"
    /\ UNCHANGED <<caller, warm, dot, calls, obs, hist>>

NextReload ==
    \/ LoadCartridge(RomInxOam)
    \/ Reset
    \/ ResetCall
    \/ ResetReturns
    \/ BetweenFrame
    \/ Reload
    \/ CpuStep
    \/ PpuDot

SpecReload == Init /\ [][NextReload]_vars

\* C21 (as claimed): load, reset, load, reset of the same image, also with
\* frames run in between, leaves the same CPU state and PPU state as the single
\* load and reset on the fresh console did.
C21_Repeatable == Len(hist) = 2 => hist[2] = hist[1]



(* ====================================================================== *)
(* Traced programs: as the instruction-level view, with each executed      *)
(* instruction recorded together with the PPU registers it found and the   *)
(* stack byte it left at the old stack pointer.                            *)
(* ====================================================================== *)
\* CLI; LDA #$80; STA $2000; NOP; loop: JMP loop                 NMI: RTI
RomNmiOn ==
    Image(<<\h58, \hA9, \h80, \h8D, \h00, \h20, \hEA, \h4C, \h07, \h80>>,
          <<\h40>>, "Horizontal")

\* LDA #$80; PHA; LDA #$20; PHA; LDA #p; PHA; RTI      $8020: loop: JMP loop
RomRti(p) ==
    Image(<<\hA9, \h80, \h48, \hA9, \h20, \h48, \hA9, p, \h48, \h40>>,
          <<\h4C, \h20, \h80>>, "Horizontal")

TraceRoms ==
    {RomNmiOn}
    \cup {RomRti(p) : p \in {\h00, \h10, \h30, \hFF}}
    \cup {RomPhpPlp(sp, p) : sp \in {\hFD, \h00}, p \in {\h00, \h10, \h24, \hFF}}

\* one executed instruction: m the console before it, n the console after
Traced(m, n) ==
    [op |-> cpu_read(m, m.cpu.pc).val,
     at |-> m.cpu.pc,
     before |-> m.cpu,
     after |-> n.cpu,
     ctrl |-> m.ppu.ctrl,
     status |-> m.ppu.status,
     top |-> cpu_read(n, \h0100 + m.cpu.sp).val]

\* run_frame: self.cpu_step(), for the first MaxSteps instructions
TraceStep ==
    /\ pc = "cpu"
    /\ nes.cpu.cycles < MaxSteps
    /\ nes' = cpu_step(nes)
    /\ pc' = "ppu"
    /\ dot' = 0
    /\ hist' = Window(hist, Traced(nes, cpu_step(nes)))
    /\ UNCHANGED <<caller, warm, calls, obs>>

NextTrace ==
    \/ \E image \in TraceRoms : LoadCartridge(image)
    \/ Reset
    \/ ResetCall
    \/ TraceStep
    \/ PpuDot

SpecTrace == Init /\ [][NextTrace]_vars

(* ---------------------------------------------------------------------- *)
(* Claims about interrupts and the status register (specification          *)
(* SpecTrace)                                                              *)
(* ---------------------------------------------------------------------- *)
\* entry e is a STA $2000 that takes CTRL bit 7 from 0 to 1 with VBlank set
EnablesNmiInVBlank(e) ==
    /\ e.op = \h8D
    /\ Fetch16(nes, WrapAdd16(e.at, 1)) = \h2000
    /\ BitAnd(e.before.a, \h80) # 0
    /\ BitAnd(e.ctrl, \h80) = 0
    /\ BitAnd(e.status, \h80) # 0

\* C31 (as claimed): a write to $2000 that takes CTRL bit 7 from 0 to 1 while
\* STATUS bit 7 is set raises an NMI at once: the next instruction the CPU
\* executes is the first one of the NMI handler.
C31_NmiOnEnable ==
    \A k \in DOMAIN hist :
        (k + 1 \in DOMAIN hist /\ EnablesNmiInVBlank(hist[k]))
            => hist[k + 1].at = Fetch16(nes, \hFFFA)



\* C35 (as claimed): every byte pushed to the stack as a copy of P has bit 5
\* (U) set, also after PLP or RTI pulled a byte with bit 5 clear.  (PHP is the
\* pushing instruction here; its byte is the one left at the old stack pointer.)
C35_PushedUnused ==
    \A k \in DOMAIN hist :
        hist[k].op = \h08 => BitAnd(hist[k].top, \h20) # 0

\* C36: in every reachable CPU state bit 4 (B) of P is 0: no instruction, pull,
\* interrupt or reset stores B in P, whatever bytes are on the stack.
C36_BreakClear == BitAnd(nes.cpu.p, \h10) = 0

\* a PLP or an RTI has just pulled $FF from the stack and P is $EF
C36_Witness ==
    /\ hist # <<>>
    /\ hist[Len(hist)].op \in {\h28, \h40}
    /\ BitAnd(hist[Len(hist)].top, \h10) = 0
    /\ cpu_read(nes, \h0100 + WrapAdd8(hist[Len(hist)].before.sp, 1)).val = \hFF
    /\ nes.cpu.p = \hEF



(* ====================================================================== *)
(* Register-level view with a loaded image: the console holds a cartridge  *)
(* made by Cartridge::new from an image with or without CHR-ROM, has been  *)
(* reset, and the program works MASK and the data port.                    *)
(* ====================================================================== *)
\* a well-formed image of one PRG bank and chr CHR banks; the CHR-ROM, if any,
\* starts with the bytes $C3, $3C
IoFile(chr) ==
    [ImageFile(26, 1, chr, 0, 0, DeclaredLen(1, chr, 0))
        EXCEPT !.bytes = IF chr > 0 THEN BytesAt(16 + 16384, <<\hC3, \h3C>>)
                         ELSE EmptyMem]

\* the cartridge of an image that supplied CHR-ROM, and of one that did not
ChrRomCart == Cartridge_new(IoFile(1)).cartridge

ChrRamCart == Cartridge_new(IoFile(0)).cartridge

IoWrites == {<<\h2001, \h06>>, <<\h2001, \h19>>, <<\h2007, \h5A>>}

IoAddrs == {\h0000, \h0001, \h2000, \h3F00}

InitIo ==
    /\ \E cart \in {ChrRomCart, ChrRamCart} :
          nes = [NES_new EXCEPT !.cartridge = Some(cart),
                                !.cpu = CPU_reset(@, cart),
                                !.ppu = PPU_reset(@)]
    /\ pc = "regs"
    /\ caller = "main"
    /\ warm = 0
    /\ dot = 0
    /\ calls = 0
    /\ obs = ObsInit
    /\ hist = <<>>

NextIo ==
    \/ \E w \in IoWrites : RegWrite(w[1], w[2])
    \/ RegRead(\h2007)
    \/ \E a \in IoAddrs : SetVramAddr(a)

SpecIo == InitIo /\ [][NextIo]_vars

(* ---------------------------------------------------------------------- *)
(* Claims about MASK, the data port and CHR memory (specification SpecIo)  *)
(* ---------------------------------------------------------------------- *)
\* the last access of the window h
Last(h) == h[Len(h)]

\* the nametable byte under palette address v
Underneath(p, v, cartridge) ==
    MemRead(p.vram, NametableIndex(BitAnd(v, \h2FFF), cartridge.mirroring))

\* access e, a read of $2007, took the PPU from p to q with cartridge loaded
BufferedRead(e, p, q, cartridge) ==
    /\ IF p.vram_addr < \h3F00
       THEN /\ e.val = p.data
            /\ q.data = ppu_read(p, p.vram_addr, cartridge)
       ELSE /\ e.val = ppu_read(p, p.vram_addr, cartridge)
            /\ q.data = Underneath(p, p.vram_addr, cartridge)
    /\ q.vram_addr = WrapAdd16(p.vram_addr, IF BitAnd(p.ctrl, \h04) # 0 THEN 32 ELSE 1)

\* C32 (as claimed): a read of $2007 with v below $3F00 returns the previous
\* read buffer and reloads the buffer with the PPU memory byte at v, CHR
\* addresses being read through the loaded cartridge; with v at or above $3F00
\* it returns the palette byte at v while the buffer is reloaded with the
\* nametable byte underneath; either way v advances by 1 or 32.
C32_BufferedRead ==
    [][(Last(hist').op = "read" /\ Last(hist').addr = \h2007)
          => BufferedRead(Last(hist'), nes.ppu, nes'.ppu, nes.cartridge[1])]_vars

\* C33 (as claimed): a write of any byte d to $2001 leaves MASK = d and changes
\* no other PPU register or latch.
C33_MaskStore ==
    [][(Last(hist').op = "write" /\ Last(hist').addr = \h2001)
          => nes'.ppu = [nes.ppu EXCEPT !.mask = Last(hist').data]]_vars

\* C34 (as claimed): a byte written through $2007 to an address below $2000
\* leaves every CHR byte unchanged when the image supplied CHR-ROM, and is
\* stored, so that pattern fetches and $2007 reads of the address return it,
\* when the image supplied none.
C34_ChrWrite ==
    [][(/\ Last(hist').op = "write" /\ Last(hist').addr = \h2007
        /\ nes.ppu.vram_addr < \h2000)
          => IF nes.cartridge = Some(ChrRomCart)
             THEN nes'.cartridge = nes.cartridge
             ELSE ppu_read(nes'.ppu, nes.ppu.vram_addr, nes'.cartridge[1])
                     = Last(hist').data]_vars



(* ====================================================================== *)
(* Scroll view: programs that set MASK, point the data port at $2108 and   *)
(* read it once, so that v = $2109 and t = $2108, followed through reset   *)
(* into the first visible scanline of the second warm-up frame.            *)
(* ====================================================================== *)
\* LDA #mask; STA $2001; LDA #$21; STA $2006; LDA #$08; STA $2006; LDA $2007;
\* loop: JMP loop
RomScroll(mask) ==
    Image(<<\hA9, mask, \h8D, \h01, \h20, \hA9, \h21, \h8D, \h06, \h20,
            \hA9, \h08, \h8D, \h06, \h20, \hAD, \h07, \h20, \h4C, \h12, \h80>>,
          <<\h40>>, "Horizontal")

ScrollRoms == {RomScroll(mask) : mask \in {\h00, \h01, \hE6, \h08, \h10}}

NextScroll ==
    \/ \E image \in ScrollRoms : LoadCartridge(image)
    \/ Reset
    \/ ResetCall
    \/ DrawStep
    \/ PpuDot

SpecScroll == Init /\ [][NextScroll]_vars

(* ---------------------------------------------------------------------- *)
(* Claims about the PPU's own steps (specification SpecScroll)             *)
(* ---------------------------------------------------------------------- *)
RenderingOff(p) == BitAnd(p.mask, \h18) = 0

\* the instruction at PC reads or writes $2006 or $2007
AccessesVramPort(m) ==
    /\ cpu_read(m, m.cpu.pc).val \in {\h8D, \hAD}
    /\ Fetch16(m, WrapAdd16(m.cpu.pc, 1)) \in {\h2006, \h2007}

\* C37: while MASK bits 3 and 4 are both clear no PPU::step changes v (neither
\* the coarse-X increment, the fine-Y increment at dot 256, the horizontal
\* copy at dot 257 nor the vertical copy at dots 280-304 of the pre-render
\* line), so that v changes only through $2006 and $2007 accesses.
C37_ScrollFrozen ==
    [][RenderingOff(nes.ppu)
          => /\ pc = "ppu" => nes'.ppu.vram_addr = nes.ppu.vram_addr
             /\ (pc = "cpu" /\ nes'.ppu.vram_addr # nes.ppu.vram_addr)
                   => AccessesVramPort(nes)]_vars

\* with rendering off and v one ahead of t, the PPU has passed dots 256, 257
\* and 280-304 of the pre-render line
C37_Witness ==
    /\ RenderingOff(nes.ppu)
    /\ nes.ppu.mask = \h01
    /\ nes.ppu.scanline = -1 /\ nes.ppu.cycle = 305
    /\ nes.ppu.vram_addr = \h2109 /\ nes.ppu.temp_vram_addr = \h2108



(* ====================================================================== *)
(* Loading over a console: load_cartridge is called again, with any file,  *)
(* on a console that may already hold a cartridge.  hist is the window of  *)
(* the last three calls.                                                   *)
(* ====================================================================== *)
\* files given to the later calls: well-formed ones, one with a bad magic
\* number, one cut short in the PRG-ROM, one cut short in the header
LaterFiles ==
    {ImageFile(26, 1, 1, 1, 0, DeclaredLen(1, 1, 1)),
     ImageFile(26, 2, 0, 0, 0, DeclaredLen(2, 0, 0)),
     ImageFile(0, 1, 1, 0, 0, DeclaredLen(1, 1, 0)),
     ImageFile(26, 1, 1, 0, 0, DeclaredLen(1, 1, 0) - 8193),
     ImageFile(26, 1, 0, 0, 0, 15)}

\* a load that forgets the old cartridge when it fails
load_cartridge_Eject(m, loaded) ==
    [m EXCEPT !.cartridge = IF loaded.ok THEN Some(loaded.cartridge) ELSE None]

\* NES::load_cartridge, loaded being what Cartridge::new returned: `?` returns
\* the error before self.cartridge is assigned
load_cartridge(m, loaded) ==
    IF loaded.ok THEN [m EXCEPT !.cartridge = Some(loaded.cartridge)] ELSE m

\* the first call, on the console as constructed
LoadFirst(file) ==
    /\ pc = "new"
    /\ hist = <<>>
    /\ nes' = load_cartridge(nes, Cartridge_new(file))
    /\ pc' = IF Cartridge_new(file).ok THEN "loaded" ELSE "failed"
    /\ hist' = <<Called("load", <<file>>)>>
    /\ UNCHANGED <<caller, warm, dot, calls, obs>>

\* a later call
LoadOver(file) ==
    /\ pc \in {"failed", "loaded"}
    /\ calls < MaxOps
    /\ calls' = calls + 1
    /\ nes' = load_cartridge(nes, Cartridge_new(file))
    /\ pc' = IF Cartridge_new(file).ok THEN "loaded" ELSE pc
    /\ hist' = Window(hist, Called("load", <<file>>))
    /\ UNCHANGED <<caller, warm, dot, obs>>

\* a call with a path that cannot be opened: File::open fails
LoadUnreadable ==
    /\ pc \in {"failed", "loaded"}
    /\ calls < MaxOps
    /\ calls' = calls + 1
    /\ nes' = load_cartridge(nes, Err("No such file or directory"))
    /\ hist' = Window(hist, Called("load", <<>>))
    /\ UNCHANGED <<pc, caller, warm, dot, obs>>

NextOver ==
    \/ \E file \in Files : LoadFirst(file)
    \/ \E file \in LaterFiles : LoadOver(file)
    \/ LoadUnreadable

SpecOver == Init /\ [][NextOver]_vars

\* the call recorded as e failed
FailedLoad(e) == e.op = "load" /\ (e.arg = <<>> \/ ~Cartridge_new(e.arg[1]).ok)

\* C38: a load that fails (file unreadable, bad magic, truncated data) leaves
\* the console exactly as it was: a cartridge loaded before stays in place and
\* CPU, PPU and RAM are unchanged, so the console is steppable as before.
C38_FailedLoadKeeps ==
    [][FailedLoad(hist'[Len(hist')])
          => /\ nes' = nes
             /\ Steppable(nes') = Steppable(nes)]_vars

\* a console holding a cartridge has been given a truncated file after an
\* unreadable one, and still holds the cartridge
C38_Witness ==
    /\ Len(hist) = 3
    /\ ~FailedLoad(hist[1])
    /\ hist[2].arg = <<>>
    /\ hist[3].arg # <<>> /\ FailedLoad(hist[3]) /\ hist[3].arg[1].len > 16
    /\ nes.cartridge = Some(Cartridge_new(hist[1].arg[1]).cartridge)
    /\ pc = "loaded"



(* ====================================================================== *)
(* Latch view: register accesses of a program working the write toggle,    *)
(* with PPU::step calls in between and a reset, on a console that has a    *)
(* cartridge and has been reset.                                           *)
(* ====================================================================== *)
ToggleWrites ==
    {<<\h2005, \h7D>>, <<\h2006, \h21>>, <<\h2000, \h80>>, <<\h2001, \h1E>>,
     <<\h2007, \hC5>>}

ToggleReads == {\h2002, \h2007}

\* run_frame: one self.ppu.step(cartridge) between two instructions
LatchDot ==
    /\ pc = "regs"
    /\ calls < MaxOps
    /\ nes' = [nes EXCEPT !.ppu = PPU_step(nes.ppu, nes.cartridge[1]).ppu]
    /\ hist' = Window(hist, Entry("dot", 0, 0, 0, nes.ppu))
    /\ calls' = calls + 1
    /\ UNCHANGED <<pc, caller, warm, dot, obs>>

\* NES::reset up to its warm-up loop: self.cpu.reset, self.ppu.reset
LatchReset ==
    /\ pc = "regs"
    /\ calls < MaxOps
    /\ nes' = [nes EXCEPT !.cpu = CPU_reset(@, nes.cartridge[1]),
                          !.ppu = PPU_reset(@),
                          !.cycles = 0]
    /\ hist' = Window(hist, Entry("reset", 0, 0, 0, nes.ppu))
    /\ calls' = calls + 1
    /\ UNCHANGED <<pc, caller, warm, dot, obs>>

NextLatch ==
    \/ \E w \in ToggleWrites : RegWrite(w[1], w[2])
    \/ \E addr \in ToggleReads : RegRead(addr)
    \/ LatchDot
    \/ LatchReset

SpecLatch == InitPPU /\ [][NextLatch]_vars

(* ---------------------------------------------------------------------- *)
(* Claims about the write toggle (specification SpecLatch)                 *)
(* ---------------------------------------------------------------------- *)
\* what access e is to make of the toggle w
ToggleAfter(e, w) ==
    IF e.op = "write" /\ e.addr \in {\h2005, \h2006} THEN ~w
    ELSE IF (e.op = "read" /\ e.addr = \h2002) \/ e.op = "reset" THEN FALSE
    ELSE w

\* in window h the last access is a $2006 write that directly follows a $2005
\* write made with the toggle clear
ScrollThenAddr(h) ==
    /\ Len(h) >= 2
    /\ h[Len(h) - 1].op = "write" /\ h[Len(h) - 1].addr = \h2005
    /\ ~h[Len(h) - 1].before.write_toggle
    /\ h[Len(h)].op = "write" /\ h[Len(h)].addr = \h2006

\* C39: the write toggle is one latch shared by $2005 and $2006: a write to
\* either flips it, a $2002 read and a reset clear it, no other register
\* access and no PPU::step changes it; so a $2006 write after a $2005 write is
\* taken as a second write (low address byte, v = t).
C39_SharedToggle ==
    [][/\ nes'.ppu.write_toggle
             = ToggleAfter(hist'[Len(hist')], nes.ppu.write_toggle)
       /\ ScrollThenAddr(hist')
             => /\ nes'.ppu.temp_vram_addr
                      = BitOr(BitAnd(nes.ppu.temp_vram_addr, \hFF00),
                              hist'[Len(hist')].data)
                /\ nes'.ppu.vram_addr = nes'.ppu.temp_vram_addr
                /\ ~nes'.ppu.write_toggle]_vars

\* a $2005 write, a PPU::step and a $2006 write: the toggle survived the step
\* and the $2006 write was the second one
C39_Witness ==
    /\ Len(hist) = 3
    /\ hist[1].op = "write" /\ hist[1].addr = \h2005 /\ ~hist[1].before.write_toggle
    /\ hist[2].op = "dot" /\ hist[2].before.write_toggle
    /\ hist[3].op = "write" /\ hist[3].addr = \h2006 /\ hist[3].before.write_toggle
    /\ ~nes.ppu.write_toggle
    /\ BitAnd(nes.ppu.vram_addr, \hFF) = \h21



(* ---------------------------------------------------------------------- *)
(* Claim about what a PPU step writes (specification SpecDraw)             *)
(* ---------------------------------------------------------------------- *)
\* the memories of PPU p
PpuMemories(p) == <<p.vram, p.palette_ram, p.oam>>

\* C40: PPU::step never modifies nametable VRAM, palette RAM, OAM, CHR memory
\* or CPU RAM (CPU RAM changes in a pass of run_frame's inner loop only by the
\* pushes of NES::nmi), and it writes the framebuffer only for the pixel
\* (cycle - 1, scanline) that render_pixel is called for, on scanlines 0..239
\* at dots 1..256.
C40_StepWritesPixelOnly ==
    [][pc = "ppu"
          => /\ PpuMemories(PPU_step(nes.ppu, nes.cartridge[1]).ppu)
                   = PpuMemories(nes.ppu)
             /\ PpuMemories(nes'.ppu) = PpuMemories(nes.ppu)
             /\ nes'.cartridge = nes.cartridge
             /\ (nes'.ram = nes.ram \/ obs'.delivered # obs.delivered)
             /\ nes'.ppu.fb_last # nes.ppu.fb_last
                   => /\ nes.ppu.scanline \in 0..239
                      /\ RenderInput(nes.ppu, nes.cartridge[1]).cycle \in 1..256
                      /\ nes'.ppu.fb_last[1]
                            = RenderInput(nes.ppu, nes.cartridge[1]).cycle - 1
                      /\ nes'.ppu.fb_last[2] = nes.ppu.scanline]_vars

\* pixel (5, 0) has been written with rendering enabled
C40_Witness ==
    /\ nes.ppu.fb_last # <<>>
    /\ nes.ppu.fb_last[1] = 5 /\ nes.ppu.fb_last[2] = 0
    /\ nes.ppu.scanline = 0 /\ nes.ppu.cycle = 7
    /\ nes.ppu.mask = \h1E

====
